---- MODULE Spec2Model ----
(***************************************************************************)
(* Model of the prompt optimiser: the six-stage pipeline of                *)
(* PromptOptimizerWorkflow (prompt_optimizer.py), its three entry points   *)
(* (optimize_prompt, the agent executor, the web front end) and the        *)
(* ModelFactory instance cache.                                            *)
(*                                                                         *)
(* Text is a sequence of one-character strings, so that strip, split,      *)
(* join, len and substring tests are computed as Python computes them.     *)
(***************************************************************************)
EXTENDS Integers, Sequences, FiniteSets, TLC

\* ------------------------------------------------------------------ bounds
MaxExamples == 2

\* ------------------------------------------------------------ text helpers
\* characters str.strip() removes (the ones the model's texts can contain)
WS == {" ", "\n", "\t", "\r"}

RECURSIVE LStrip(_)
LStrip(s) == IF s # <<>> /\ Head(s) \in WS THEN LStrip(Tail(s)) ELSE s

RECURSIVE RStrip(_)
RStrip(s) ==
    IF s # <<>> /\ s[Len(s)] \in WS THEN RStrip(SubSeq(s, 1, Len(s) - 1)) ELSE s

\* str.strip()
Strip(s) == LStrip(RStrip(s))

\* faulty variant of IsBlank: the text is not stripped
IsEmpty(s) == s = <<>>

\* not s.strip()
IsBlank(s) == Strip(s) = <<>>

\* sub in s
Contains(s, sub) ==
    \E i \in 1..(Len(s) - Len(sub) + 1) : SubSeq(s, i, i + Len(sub) - 1) = sub

StartsWith(s, pre) == Len(s) >= Len(pre) /\ SubSeq(s, 1, Len(pre)) = pre

EndsWith(s, suf) ==
    Len(s) >= Len(suf) /\ SubSeq(s, Len(s) - Len(suf) + 1, Len(s)) = suf

\* s.split('\n')
RECURSIVE SplitLines(_)
SplitLines(s) ==
    IF \A i \in 1..Len(s) : s[i] # "\n"
    THEN <<s>>
    ELSE LET i == CHOOSE k \in 1..Len(s) :
                     s[k] = "\n" /\ \A j \in 1..(k - 1) : s[j] # "\n"
         IN  <<SubSeq(s, 1, i - 1)>> \o SplitLines(SubSeq(s, i + 1, Len(s)))

\* sep.join(parts)
RECURSIVE Join(_, _)
Join(parts, sep) ==
    IF parts = <<>> THEN <<>>
    ELSE IF Len(parts) = 1 THEN parts[1]
    ELSE parts[1] \o sep \o Join(Tail(parts), sep)

UpperLetters ==
    <<"A","B","C","D","E","F","G","H","I","J","K","L","M",
      "N","O","P","Q","R","S","T","U","V","W","X","Y","Z">>
LowerLetters ==
    <<"a","b","c","d","e","f","g","h","i","j","k","l","m",
      "n","o","p","q","r","s","t","u","v","w","x","y","z">>

LowerChar(c) ==
    IF \E i \in 1..26 : UpperLetters[i] = c
    THEN LowerLetters[CHOOSE i \in 1..26 : UpperLetters[i] = c]
    ELSE c

\* str.lower()
Lower(s) == [i \in 1..Len(s) |-> LowerChar(s[i])]

\* ------------------------------------------------------- program constants
\* the static fallback prompt of _generate_prompt_node and _finalize_node
FALLBACK_PROMPT ==
    <<"P","l","e","a","s","e"," ","p","r","o","v","i","d","e"," ","a"," ","c","l","e","a","r"," ","a","n","d"," ","s","p","e","c","i","f","i","c"," ","r","e","s","p","o","n","s","e"," ","t","o"," ","t","h","e"," ","u","s","e","r","'","s"," ","r","e","q","u","e","s","t",".">>

\* the static evaluation of _evaluate_prompt_node
BASIC_EVALUATION ==
    <<"B","a","s","i","c"," ","e","v","a","l","u","a","t","i","o","n",":"," ","T","h","e"," ","p","r","o","m","p","t"," ","a","p","p","e","a","r","s"," ","f","u","n","c","t","i","o","n","a","l"," ","b","u","t"," ","m","a","y"," ","n","e","e","d"," ","r","e","f","i","n","e","m","e","n","t",".">>

PROMPT_MARK == <<"P","R","O","M","P","T",":">>
ADDITIONAL_EXAMPLES_MARK == <<"A","D","D","I","T","I","O","N","A","L","_","E","X","A","M","P","L","E","S",":">>
DESIGN_PRINCIPLES_MARK == <<"D","E","S","I","G","N","_","P","R","I","N","C","I","P","L","E","S",":">>
ALTERNATIVE_MARK == <<"A","L","T","E","R","N","A","T","I","V","E">>
FOCUS_OPEN == <<"[","F","o","c","u","s",":">>
AVAILABLE_VARIABLES == <<"\n","\n","A","v","a","i","l","a","b","l","e"," ","v","a","r","i","a","b","l","e","s",":"," ">>

OPENAI == <<"o","p","e","n","a","i">>
GEMINI == <<"g","e","m","i","n","i">>

\* Config.DEFAULT_MODEL_TYPE, Config.DEFAULT_PROXY
DEFAULT_MODEL_TYPE == OPENAI
DEFAULT_PROXY ==
    <<"h","t","t","p",":","/","/","1","2","7",".","0",".","0",".","1",":","7","8","9","0">>

\* ---------------------------------------------------------- response parser
\* the loop of _extract_prompt_from_response over the remaining lines
RECURSIVE ExtractPromptScan(_, _, _)
ExtractPromptScan(lines, in_prompt_section, prompt_lines) ==
    IF lines = <<>> THEN prompt_lines
    ELSE LET line == Head(lines) IN
         IF Contains(line, PROMPT_MARK)
         THEN ExtractPromptScan(Tail(lines), TRUE, prompt_lines)
         ELSE IF Contains(line, ADDITIONAL_EXAMPLES_MARK)
                 \/ Contains(line, DESIGN_PRINCIPLES_MARK)
         THEN ExtractPromptScan(Tail(lines), FALSE, prompt_lines)
         ELSE IF in_prompt_section
         THEN ExtractPromptScan(Tail(lines), TRUE, Append(prompt_lines, line))
         ELSE ExtractPromptScan(Tail(lines), FALSE, prompt_lines)

\* PromptGeneratorAgent._extract_prompt_from_response
ExtractPromptFromResponse(response) ==
    IF response = <<>> THEN <<>>
    ELSE Strip(Join(ExtractPromptScan(SplitLines(response), FALSE, <<>>), <<"\n">>))

\* a scan that keeps the Focus lines as content
NeverFocusLine(line) == FALSE

\* the "[Focus: ...]" line test of _extract_alternatives
IsFocusLine(line) ==
    StartsWith(Strip(line), FOCUS_OPEN) /\ EndsWith(Strip(line), <<"]">>)

\* closes the alternative collected so far (the two flush sites of the loop)
FlushAlternative(alternatives, current_alternative, in_alternative) ==
    IF current_alternative # <<>> /\ in_alternative
       /\ Strip(Join(current_alternative, <<"\n">>)) # <<>>
    THEN Append(alternatives, Strip(Join(current_alternative, <<"\n">>)))
    ELSE alternatives

\* the loop of _extract_alternatives over the remaining lines
RECURSIVE ExtractAlternativesScan(_, _, _, _)
ExtractAlternativesScan(lines, alternatives, current_alternative, in_alternative) ==
    IF lines = <<>>
    THEN FlushAlternative(alternatives, current_alternative, in_alternative)
    ELSE LET line == Head(lines) IN
         IF Contains(line, ALTERNATIVE_MARK) /\ Contains(line, <<":">>)
         THEN ExtractAlternativesScan(Tail(lines),
                  FlushAlternative(alternatives, current_alternative, in_alternative),
                  <<>>, TRUE)
         ELSE IF in_alternative /\ Strip(line) # <<>> /\ ~IsFocusLine(line)
         THEN ExtractAlternativesScan(Tail(lines), alternatives,
                  Append(current_alternative, line), in_alternative)
         ELSE ExtractAlternativesScan(Tail(lines), alternatives,
                  current_alternative, in_alternative)

\* PromptImproverAgent._extract_alternatives
ExtractAlternatives(response) ==
    IF response = <<>> THEN <<>>
    ELSE ExtractAlternativesScan(SplitLines(response), <<>>, <<>>, FALSE)

\* ------------------------------------------------------------------- state
VARIABLES
    api_key,               \* Config.OPENAI_API_KEY / Config.GOOGLE_API_KEY, by provider
    enable_default_proxy,  \* Config.ENABLE_DEFAULT_PROXY
    environ,               \* os.environ, the four proxy variables (<<>> = not set)
    model_instances,       \* ModelFactory._model_instances: cache key -> instance
    next_id,               \* identity of the next model object constructed
    generator,             \* PromptGeneratorAgent: model, model_type
    evaluator,             \* PromptEvaluatorAgent: model, model_type
    improver,              \* PromptImproverAgent: model, model_type
    entry,                 \* entry point serving the current request
    request,               \* the request as received by the entry point
    state,                 \* PromptOptimizerState of the run
    pc,                    \* position of the run
    trace,                 \* nodes executed so far, in order, each with the
                           \* step label its update wrote
    result,                \* what the entry point returned or raised
    events,                \* messages enqueued by the agent executor
    workflows,             \* keys of PromptOptimizerAgentExecutor._workflows
    returned,              \* log of the direct ModelFactory calls: create_model
                           \* with its argument, what it returned and whether
                           \* no proxy variable was set when it was made,
                           \* clear_cache, and the caller's removal of the
                           \* proxy variables
    response,              \* text of a model response handed to a parser
    parse_result,          \* what the parser called on response returned
    objects,               \* the PromptOptimizerWorkflow objects built so far,
                           \* each with its three agents
    optimizer_workflow,    \* web.optimizer.workflow: index into objects, 0 = None
    tasks                  \* the runs started on those objects, finished or
                           \* suspended at a stage: state, position, the
                           \* workflow each was given or built, the workflows
                           \* its stages ran on and the models they called

vars == <<api_key, enable_default_proxy, environ, model_instances, next_id,
          generator, evaluator, improver, entry, request, state, pc, trace,
          result, events, workflows, returned, response, parse_result,
          objects, optimizer_workflow, tasks>>

parserVars == <<response, parse_result>>
runVars == <<objects, optimizer_workflow, tasks>>

configVars == <<api_key, enable_default_proxy>>
factoryVars == <<environ, model_instances, next_id>>
agentVars == <<generator, evaluator, improver>>

\* ------------------------------------------------------------ ModelFactory
ProxyNames == {"HTTPS_PROXY", "HTTP_PROXY", "https_proxy", "http_proxy"}

\* self.model = None
NoModel == [id |-> 0, kind |-> <<>>]

\* ModelFactory._setup_proxy
SetupProxy(env, enable_default) ==
    LET https_env == Strip(env["HTTPS_PROXY"])
        http_env == Strip(env["HTTP_PROXY"])
        use_default == https_env = <<>> /\ http_env = <<>>
        https_proxy == IF use_default THEN DEFAULT_PROXY ELSE https_env
        http_proxy == IF use_default THEN DEFAULT_PROXY ELSE http_env
    IN  IF use_default /\ ~enable_default
        THEN env
        ELSE [k \in ProxyNames |->
                 IF k \in {"HTTPS_PROXY", "https_proxy"} /\ https_proxy # <<>>
                 THEN https_proxy
                 ELSE IF k \in {"HTTP_PROXY", "http_proxy"} /\ http_proxy # <<>>
                 THEN http_proxy
                 ELSE env[k]]

\* ModelFactory._create_openai_model / _create_gemini_model: succeed iff the
\* provider's API key is configured
CanCreate(kind, keys) == kind \in DOMAIN keys /\ keys[kind] # <<>>

\* faulty variant of CacheKey: the model type is not lower-cased
CacheKeyExact(model_type) == model_type

\* cache_key of create_model
CacheKey(model_type) == Lower(model_type)

\* ModelFactory.create_model: f is the factory state [cache, next_id, environ]
CreateModel(model_type_arg, f, keys, enable_default) ==
    LET model_type == IF model_type_arg = <<>> THEN DEFAULT_MODEL_TYPE
                      ELSE model_type_arg
        cache_key == CacheKey(model_type)
        env2 == SetupProxy(f.environ, enable_default)
        model == [id |-> f.next_id, kind |-> Lower(model_type)]
    IN  IF cache_key \in DOMAIN f.cache
        THEN [ok |-> TRUE, model |-> f.cache[cache_key], f |-> f]
        ELSE IF Lower(model_type) \in {OPENAI, GEMINI}
                /\ CanCreate(Lower(model_type), keys)
        THEN [ok |-> TRUE, model |-> model,
              f |-> [cache |-> [k \in DOMAIN f.cache \cup {cache_key} |->
                                   IF k = cache_key THEN model ELSE f.cache[k]],
                     next_id |-> f.next_id + 1,
                     environ |-> env2]]
        ELSE [ok |-> FALSE, model |-> NoModel,
              f |-> [cache |-> f.cache, next_id |-> f.next_id, environ |-> env2]]

\* _ensure_model of the three agents (same code in each): the model_type
\* field is assigned before create_model is called, so a failed creation
\* leaves the new type next to the old model
EnsureModel(agent, model_type, f, keys, enable_default) ==
    IF agent.model = NoModel \/ agent.model_type # model_type
    THEN LET r == CreateModel(model_type, f, keys, enable_default) IN
         [ok |-> r.ok,
          agent |-> [model |-> IF r.ok THEN r.model ELSE agent.model,
                     model_type |-> model_type],
          f |-> r.f]
    ELSE [ok |-> TRUE, agent |-> agent, f |-> f]

\* ------------------------------------------------------------ example data
\* keys of example input objects, in sorted() order
KeyOrder == <<"a", "b">>

SortedKeys(S) == SelectSeq(KeyOrder, LAMBDA k : k \in S)

OBJ_A == <<"{","\"","a","\"",":"," ","1","}">>
OBJ_B == <<"{","\"","b","\"",":"," ","1","}">>
OBJ_AB == <<"{","\"","a","\"",":"," ","1",","," ","\"","b","\"",":"," ","2","}">>
NUM_5 == <<"5">>
TEXT_TEST == <<"t","e","s","t">>

\* json.loads on the example inputs of the model: the decoded value's type
\* and, for an object, its keys; any other text raises JSONDecodeError
JsonLoads(s) ==
    CASE s = OBJ_A -> [ok |-> TRUE, isdict |-> TRUE, keys |-> {"a"}]
      [] s = OBJ_B -> [ok |-> TRUE, isdict |-> TRUE, keys |-> {"b"}]
      [] s = OBJ_AB -> [ok |-> TRUE, isdict |-> TRUE, keys |-> {"a", "b"}]
      [] s = NUM_5 -> [ok |-> TRUE, isdict |-> FALSE, keys |-> {}]
      [] OTHER -> [ok |-> FALSE, isdict |-> FALSE, keys |-> {}]

\* "{var}"
Placeholder(var) == <<"{", var, "}">>

\* ----------------------------------------------------------- pipeline nodes
\* A node takes the world w = [state, generator, evaluator, improver, f, upd]
\* and the outcome o = [ok, content] of the external model call it would make.
\* It returns the world with the node's update applied to every state key but
\* messages; upd is the update's "messages" entry: 1 for [response], 0 for [],
\* -1 when the update has no such key; raised tells that the node let an
\* exception escape.
StageOrder ==
    <<"generate_guide", "generate_prompt", "generate_eval_guide",
      "evaluate_prompt", "improve_prompts", "finalize">>

\* faulty variant of NextStage: the edge out of generate_eval_guide skips the
\* evaluation
NextStageSkipsEvaluation(stage) ==
    CASE stage = "START" -> "generate_guide"
      [] stage = "generate_guide" -> "generate_prompt"
      [] stage = "generate_prompt" -> "generate_eval_guide"
      [] stage = "generate_eval_guide" -> "improve_prompts"
      [] stage = "evaluate_prompt" -> "improve_prompts"
      [] stage = "improve_prompts" -> "finalize"
      [] stage = "finalize" -> "END"

\* the edges of _build_workflow: the node scheduled after a node
NextStage(stage) ==
    CASE stage = "START" -> "generate_guide"
      [] stage = "generate_guide" -> "generate_prompt"
      [] stage = "generate_prompt" -> "generate_eval_guide"
      [] stage = "generate_eval_guide" -> "evaluate_prompt"
      [] stage = "evaluate_prompt" -> "improve_prompts"
      [] stage = "improve_prompts" -> "finalize"
      [] stage = "finalize" -> "END"

\* the order in which optimize_with_streaming calls the nodes itself
WebNextStage(stage) ==
    CASE stage = "START" -> "generate_guide"
      [] stage = "generate_guide" -> "generate_prompt"
      [] stage = "generate_prompt" -> "generate_eval_guide"
      [] stage = "generate_eval_guide" -> "evaluate_prompt"
      [] stage = "evaluate_prompt" -> "improve_prompts"
      [] stage = "improve_prompts" -> "finalize"
      [] stage = "finalize" -> "END"

\* the except branches of the five model-calling nodes
GuideSkipped(w) == [w EXCEPT !.upd = 0, !.state.step = "guide_skipped"]

\* faulty variant of PromptFallback: the exception is raised again
PromptFallbackRaises(w) == [w EXCEPT !.raised = TRUE]

PromptFallback(w) ==
    [w EXCEPT !.state.current_prompt = FALLBACK_PROMPT,
              !.state.step = "prompt_fallback"]

EvalGuideSkipped(w) == [w EXCEPT !.upd = 0, !.state.step = "eval_guide_skipped"]

\* faulty variant of EvaluationFallback: no evaluation is written
EvaluationFallbackNone(w) == [w EXCEPT !.state.step = "evaluation_fallback"]

EvaluationFallback(w) ==
    [w EXCEPT !.state.evaluations = Append(@, BASIC_EVALUATION),
              !.state.step = "evaluation_fallback"]

\* faulty variant of ImprovementFallback: no alternative is written
ImprovementFallbackEmpty(w) ==
    [w EXCEPT !.state.alternative_prompts = <<>>,
              !.state.step = "improvement_fallback"]

ImprovementFallback(w) ==
    [w EXCEPT !.state.alternative_prompts =
                  IF w.state.current_prompt # <<>>
                  THEN <<w.state.current_prompt>> ELSE <<>>,
              !.state.step = "improvement_fallback"]

\* model.ainvoke on an agent's stored model: fails when the model is None
Invoke(agent, o) == agent.model # NoModel /\ o.ok

\* _generate_guide_node around generate_prompt_engineering_guide
GenerateGuideNode(w, o, keys, enable_default) ==
    LET e == EnsureModel(w.generator, w.state.model_type, w.f, keys, enable_default)
    IN  IF w.state.role = <<>>
        THEN GuideSkipped(w)
        ELSE IF e.ok /\ Invoke(e.agent, o)
        THEN [w EXCEPT !.generator = e.agent, !.f = e.f,
                       !.upd = 1,
                       !.state.step = "guide_generated"]
        ELSE GuideSkipped([w EXCEPT !.generator = e.agent, !.f = e.f])

\* all_variables of generate_prompt_from_examples
AllVariables(examples) ==
    UNION {JsonLoads(examples[i].input.s).keys :
              i \in {j \in 1..Len(examples) :
                        examples[j].isdict /\ "input" \in examples[j].has}}

\* json.loads(...).keys() succeeds on every example that has an input
VariablesReadable(examples) ==
    \A i \in 1..Len(examples) :
        (examples[i].isdict /\ "input" \in examples[i].has)
            => /\ examples[i].input.t = "str"
               /\ JsonLoads(examples[i].input.s).ok
               /\ JsonLoads(examples[i].input.s).isdict

\* faulty variant of WithVariables: the extracted prompt is kept as it is
WithoutVariables(current_prompt, all_variables) == current_prompt

\* the "Available variables:" suffix appended when a variable is missing
WithVariables(current_prompt, all_variables) ==
    IF \E v \in all_variables : ~Contains(current_prompt, Placeholder(v))
    THEN current_prompt \o AVAILABLE_VARIABLES
         \o Join([i \in 1..Len(SortedKeys(all_variables)) |->
                     Placeholder(SortedKeys(all_variables)[i])], <<",", " ">>)
    ELSE current_prompt

\* _generate_prompt_node around generate_prompt_from_examples; the generator
\* uses the model the guide stage stored, without calling _ensure_model
GeneratePromptNode(w, o) ==
    LET examples == w.state.examples
        extracted == ExtractPromptFromResponse(o.content)
        fallback == PromptFallback(w)
    IN  IF examples = <<>>
        THEN IF Invoke(w.generator, o)
             THEN [w EXCEPT !.upd = 1,
                            !.state.current_prompt = extracted,
                            !.state.step = "prompt_generated"]
             ELSE fallback
        ELSE IF VariablesReadable(examples) /\ Invoke(w.generator, o)
             THEN [w EXCEPT !.upd = 1,
                            !.state.current_prompt =
                                WithVariables(extracted, AllVariables(examples)),
                            !.state.step = "prompt_generated"]
             ELSE fallback

\* _generate_eval_guide_node around generate_evaluation_guide
GenerateEvalGuideNode(w, o, keys, enable_default) ==
    LET e == EnsureModel(w.evaluator, w.state.model_type, w.f, keys, enable_default)
    IN  IF w.state.role = <<>>
        THEN EvalGuideSkipped(w)
        ELSE IF e.ok /\ Invoke(e.agent, o)
        THEN [w EXCEPT !.evaluator = e.agent, !.f = e.f,
                       !.upd = 1,
                       !.state.step = "evaluation_guide_generated"]
        ELSE EvalGuideSkipped([w EXCEPT !.evaluator = e.agent, !.f = e.f])

\* _evaluate_prompt_node around evaluate_prompt
EvaluatePromptNode(w, o, keys, enable_default) ==
    LET e == EnsureModel(w.evaluator, w.state.model_type, w.f, keys, enable_default)
    IN  IF w.state.current_prompt = <<>>
        THEN EvaluationFallback(w)
        ELSE IF e.ok /\ Invoke(e.agent, o)
        THEN [w EXCEPT !.evaluator = e.agent, !.f = e.f,
                       !.upd = 1,
                       !.state.evaluations = Append(@, o.content),
                       !.state.step = "prompt_evaluated"]
        ELSE EvaluationFallback([w EXCEPT !.evaluator = e.agent, !.f = e.f])

\* faulty variant of AlternativesOrCurrent: the parsed list is kept as it is
AlternativesAsParsed(parsed, current_prompt) == parsed

\* generate_improved_prompts keeps at least one alternative
AlternativesOrCurrent(parsed, current_prompt) ==
    IF parsed = <<>> THEN <<current_prompt>> ELSE parsed

\* _improve_prompts_node around generate_improved_prompts
ImprovePromptsNode(w, o, keys, enable_default) ==
    LET e == EnsureModel(w.improver, w.state.model_type, w.f, keys, enable_default)
        current_prompt == w.state.current_prompt
        parsed == ExtractAlternatives(o.content)
    IN  IF current_prompt = <<>> \/ w.state.evaluations = <<>>
        THEN ImprovementFallback(w)
        ELSE IF e.ok /\ Invoke(e.agent, o)
        THEN [w EXCEPT !.improver = e.agent, !.f = e.f,
                       !.upd = 1,
                       !.state.alternative_prompts =
                           AlternativesOrCurrent(parsed, current_prompt),
                       !.state.step = "alternatives_generated"]
        ELSE ImprovementFallback([w EXCEPT !.improver = e.agent, !.f = e.f])

\* faulty variant of Longer: a candidate of equal length replaces the best
LongerOrEqual(candidate, best) == Len(candidate) >= Len(best)

\* one step of max(..., key=len): the running best is replaced only by a
\* strictly longer candidate
Longer(candidate, best) == Len(candidate) > Len(best)

\* max(alternative_prompts, key=len), scanning from element i on
RECURSIVE MaxByLenFrom(_, _, _)
MaxByLenFrom(alts, i, best) ==
    IF i > Len(alts) THEN best
    ELSE IF Longer(alts[i], best) THEN MaxByLenFrom(alts, i + 1, alts[i])
    ELSE MaxByLenFrom(alts, i + 1, best)

MaxByLen(alts) == MaxByLenFrom(alts, 2, alts[1])

\* the selection of _finalize_node before the blank check
SelectFinal(current_prompt, alternative_prompts) ==
    IF alternative_prompts # <<>> THEN MaxByLen(alternative_prompts)
    ELSE current_prompt

\* faulty variant of FinalizeNode: the selected text is kept when blank
FinalizeNodeKeepsBlank(w) ==
    [w EXCEPT !.state.final_prompt = SelectFinal(w.state.current_prompt,
                                                 w.state.alternative_prompts),
              !.state.step = "completed"]

\* _finalize_node
FinalizeNode(w) ==
    LET final_prompt == SelectFinal(w.state.current_prompt,
                                    w.state.alternative_prompts)
    IN  [w EXCEPT !.state.final_prompt =
                      IF IsBlank(final_prompt) THEN FALLBACK_PROMPT
                      ELSE final_prompt,
                  !.state.step = "completed"]

\* merge of a node's returned update into the run's state: the compiled graph
\* appends the returned messages (add_messages), the web front end's
\* dict.update replaces the list when the update has a "messages" key
Merge(old, w, via) ==
    [w.state EXCEPT !.messages =
        IF via = "web"
        THEN (IF w.upd = -1 THEN old.messages ELSE w.upd)
        ELSE old.messages + (IF w.upd = 1 THEN 1 ELSE 0)]

\* --------------------------------------------------------- inputs of the model
\* an example as the caller passes it: a dict with some of the keys 'input'
\* and 'output', or something that is not a dict; a value is a str, or a
\* decoded JSON object or number (t) with its text rendering (s)
Val(t, s) == [t |-> t, s |-> s]
Example(isdict, has, input, output) ==
    [isdict |-> isdict, has |-> has, input |-> input, output |-> output]

EX_OUT == Val("str", <<"r">>)
EX_NOT_DICT == Example(FALSE, {}, Val("str", <<>>), Val("str", <<>>))
EX_NO_OUTPUT == Example(TRUE, {"input"}, Val("str", OBJ_A), Val("str", <<>>))
EX_BLANK_INPUT == Example(TRUE, {"input", "output"}, Val("str", <<" ">>), EX_OUT)
EX_BLANK_OUTPUT == Example(TRUE, {"input", "output"}, Val("str", OBJ_A), Val("str", <<>>))
EX_DICT_INPUT == Example(TRUE, {"input", "output"}, Val("dict", OBJ_A), EX_OUT)
EX_TEXT == Example(TRUE, {"input", "output"}, Val("str", TEXT_TEST), EX_OUT)
EX_NUMBER == Example(TRUE, {"input", "output"}, Val("str", NUM_5), EX_OUT)
EX_A == Example(TRUE, {"input", "output"}, Val("str", OBJ_A), EX_OUT)
EX_AB == Example(TRUE, {"input", "output"}, Val("str", OBJ_AB), EX_OUT)

ExampleValues ==
    {EX_NOT_DICT, EX_NO_OUTPUT, EX_BLANK_INPUT, EX_BLANK_OUTPUT, EX_DICT_INPUT,
     EX_TEXT, EX_NUMBER, EX_A, EX_AB}

ExampleLists == UNION {[1..n -> ExampleValues] : n \in 0..MaxExamples}

ROLE_DEV == <<" ","d","e","v">>
RoleValues == {<<>>, <<" ">>, ROLE_DEV}
BasicRequirementsValues == {<<>>, <<" ">>, <<"r">>}

MT_GEMINI_MIXED == <<"G","e","m","i","n","i">>
MT_OTHER == <<"c","l","a","u","d","e">>
ModelTypeValues == {OPENAI, MT_GEMINI_MIXED, MT_OTHER}

\* API key configurations of the process (read once, at import)
REAL_KEY == <<"s","k","-","1">>
GOOGLE_PLACEHOLDER == <<"y","o","u","r","_","g","o","o","g","l","e","_","a","p","i","_","k","e","y","_","h","e","r","e">>
OPENAI_PLACEHOLDER == <<"y","o","u","r","_","o","p","e","n","a","i","_","a","p","i","_","k","e","y","_","h","e","r","e">>
KeyConfigs ==
    {[k \in {OPENAI, GEMINI} |-> REAL_KEY],
     [k \in {OPENAI, GEMINI} |-> IF k = OPENAI THEN <<>> ELSE GOOGLE_PLACEHOLDER]}

\* outcomes of the external model call of a stage
Fail == [ok |-> FALSE, content |-> <<>>]
Reply(content) == [ok |-> TRUE, content |-> content]

RESP_PROMPT_A ==
    <<"P","R","O","M","P","T",":","\n","U","s","e"," ","{","a","}","\n","\n","D","E","S","I","G","N","_","P","R","I","N","C","I","P","L","E","S",":","\n","w","h","y">>
RESP_NO_MARKER == <<"h","e","l","l","o">>
RESP_THREE_ALTERNATIVES ==
    <<"A","L","T","E","R","N","A","T","I","V","E"," ","1",":"," ","[","F","o","c","u","s",":"," ","x","]","\n","a","b","\n","A","L","T","E","R","N","A","T","I","V","E"," ","2",":","\n","[","F","o","c","u","s",":"," ","y","]","\n","c","d","\n","\n","A","L","T","E","R","N","A","T","I","V","E"," ","3",":","\n","a","b","c">>
RESP_TIED_ALTERNATIVES ==
    <<"A","L","T","E","R","N","A","T","I","V","E"," ","1",":","\n","a","b","\n","A","L","T","E","R","N","A","T","I","V","E"," ","2",":","\n","c","d">>
RESP_NO_ALTERNATIVE == <<"n","o","n","e">>
RESP_EVALUATION == <<"g","o","o","d">>

GuideOutcomes == {Fail, Reply(<<"g">>)}
PromptOutcomes == {Fail, Reply(RESP_PROMPT_A), Reply(RESP_NO_MARKER)}
EvaluationOutcomes == {Fail, Reply(RESP_EVALUATION)}
ImproveOutcomes ==
    {Fail, Reply(RESP_THREE_ALTERNATIVES), Reply(RESP_TIED_ALTERNATIVES),
     Reply(RESP_NO_ALTERNATIVE)}

\* -------------------------------------------------------------- validation
Accepted == [ok |-> TRUE, err |-> "none", idx |-> 0]
\* a rejection: the kind of error and the example number its message names
\* (0 when the message names no example)
Rejected(err, idx) == [ok |-> FALSE, err |-> err, idx |-> idx]

\* faulty variant of HasInputAndOutput: the 'output' key is not looked for
HasInput(example) == "input" \in example.has

\* 'input' in example and 'output' in example
HasInputAndOutput(example) == {"input", "output"} \subseteq example.has

\* faulty variant of SameFields: missing fields are tolerated
NoExtraFields(current_fields, first_example_fields) ==
    current_fields \subseteq first_example_fields

\* current_fields != first_example_fields, negated
SameFields(current_fields, first_example_fields) ==
    current_fields = first_example_fields

\* the example loop of optimize_prompt, from example i on
RECURSIVE ValidateExamples(_, _, _, _)
ValidateExamples(examples, i, have_first, first_example_fields) ==
    IF i > Len(examples) THEN Accepted
    ELSE LET example == examples[i]
             input_data == JsonLoads(example.input.s)
         IN  IF ~example.isdict THEN Rejected("not_dict", i)
             ELSE IF ~HasInputAndOutput(example)
             THEN Rejected("missing_keys", i)
             ELSE IF example.input.t # "str" THEN Rejected("attribute_error", 0)
             ELSE IF IsBlank(example.input.s) THEN Rejected("blank", i)
             ELSE IF example.output.t # "str" THEN Rejected("attribute_error", 0)
             ELSE IF IsBlank(example.output.s) THEN Rejected("blank", i)
             ELSE IF ~input_data.ok \/ ~input_data.isdict
             THEN Rejected("not_json_object", i)
             ELSE IF ~have_first
             THEN ValidateExamples(examples, i + 1, TRUE, input_data.keys)
             ELSE IF ~SameFields(input_data.keys, first_example_fields)
             THEN Rejected("inconsistent_fields", i)
             ELSE ValidateExamples(examples, i + 1, TRUE, first_example_fields)

\* input validation of PromptOptimizerWorkflow.optimize_prompt
ValidateRequest(role, examples) ==
    IF IsBlank(role) THEN Rejected("role_empty", 0)
    ELSE ValidateExamples(examples, 1, FALSE, {})

\* the example loop of _validate_request_data, from example i on
RECURSIVE ValidateExamplesData(_, _)
ValidateExamplesData(examples, i) ==
    IF i > Len(examples) THEN Accepted
    ELSE LET example == examples[i]
             input_json == JsonLoads(example.input.s)
         IN  IF ~example.isdict THEN Rejected("not_dict", i)
             ELSE IF ~HasInputAndOutput(example)
             THEN Rejected("missing_keys", i)
             ELSE IF example.input.t # "str" \/ example.output.t # "str"
             THEN Rejected("not_string", i)
             ELSE IF IsBlank(example.input.s) \/ IsBlank(example.output.s)
             THEN Rejected("blank", i)
             ELSE IF ~input_json.ok \/ ~input_json.isdict
             THEN Rejected("not_json_object", i)
             ELSE ValidateExamplesData(examples, i + 1)

\* PromptOptimizerAgentExecutor._validate_request_data on a JSON object with
\* the keys in present
ValidateRequestData(req) ==
    IF "role" \notin req.present THEN Rejected("missing_role", 0)
    ELSE IF "basic_requirements" \notin req.present
    THEN Rejected("missing_basic_requirements", 0)
    ELSE IF IsBlank(req.role) THEN Rejected("role_empty", 0)
    ELSE IF IsBlank(req.basic_requirements)
    THEN Rejected("basic_requirements_empty", 0)
    ELSE IF "examples" \in req.present
    THEN ValidateExamplesData(req.examples, 1)
    ELSE Accepted

\* the JSON-array branch of StreamingOptimizer._parse_examples: the first
\* example that is no dict or lacks a key raises; inputs and outputs that are
\* no strings are turned into strings (json.dumps, str)
RECURSIVE ParseExamplesCheck(_, _)
ParseExamplesCheck(examples, i) ==
    IF i > Len(examples) THEN Accepted
    ELSE IF ~examples[i].isdict THEN Rejected("not_dict", i)
    ELSE IF ~HasInputAndOutput(examples[i])
    THEN Rejected("missing_keys", i)
    ELSE ParseExamplesCheck(examples, i + 1)

ParseExamplesNormalized(examples) ==
    [i \in 1..Len(examples) |->
        [examples[i] EXCEPT !.input.t = "str", !.output.t = "str"]]

\* the field-name loop of validate_inputs over the parsed examples
RECURSIVE ValidateFieldNames(_, _, _, _)
ValidateFieldNames(parsed_examples, i, have_first, first_example_fields) ==
    IF i > Len(parsed_examples) THEN Accepted
    ELSE LET input_data == JsonLoads(parsed_examples[i].input.s) IN
         IF ~input_data.ok \/ ~input_data.isdict
         THEN Rejected("not_json_object", i)
         ELSE IF ~have_first
         THEN ValidateFieldNames(parsed_examples, i + 1, TRUE, input_data.keys)
         ELSE IF ~SameFields(input_data.keys, first_example_fields)
         THEN Rejected("inconsistent_fields", i)
         ELSE ValidateFieldNames(parsed_examples, i + 1, TRUE, first_example_fields)

\* the API key test of validate_inputs (os.getenv at call time)
KeyUsable(kind, keys) ==
    /\ keys[kind] # <<>>
    /\ keys[kind] # (IF kind = GEMINI THEN GOOGLE_PLACEHOLDER ELSE OPENAI_PLACEHOLDER)

\* web.validate_inputs
ValidateInputs(req, keys) ==
    IF IsBlank(req.role) THEN Rejected("role_empty", 0)
    ELSE IF IsBlank(req.basic_requirements)
    THEN Rejected("basic_requirements_empty", 0)
    ELSE IF Lower(req.model_type) \notin {GEMINI, OPENAI}
    THEN Rejected("unsupported_model", 0)
    ELSE IF ~ParseExamplesCheck(req.examples, 1).ok
    THEN ParseExamplesCheck(req.examples, 1)
    ELSE IF ~ValidateFieldNames(ParseExamplesNormalized(req.examples), 1, FALSE, {}).ok
    THEN ValidateFieldNames(ParseExamplesNormalized(req.examples), 1, FALSE, {})
    ELSE IF ~KeyUsable(Lower(req.model_type), keys)
    THEN Rejected("api_key_missing", 0)
    ELSE Accepted

\* ------------------------------------------------------------ run records
InitialState(role, basic_requirements, examples, model_type) ==
    [messages |-> 0, role |-> role, basic_requirements |-> basic_requirements,
     examples |-> examples, current_prompt |-> <<>>, evaluations |-> <<>>,
     alternative_prompts |-> <<>>, final_prompt |-> <<>>, step |-> "started",
     model_type |-> model_type]

NoState == [InitialState(<<>>, <<>>, <<>>, <<>>) EXCEPT !.step = "none"]

NoAgent == [model |-> NoModel, model_type |-> <<>>]

\* kind: "call" for a Python call (optimize_prompt, the web handler); for the
\* executor what the user input is: "empty", "text" (no JSON), "json_object",
\* "json_falsy" ({}, [], 0, ...) or "json_list"
Request(kind, role, basic_requirements, examples, model_type, present, text) ==
    [kind |-> kind, role |-> role, basic_requirements |-> basic_requirements,
     examples |-> examples, model_type |-> model_type,
     present |-> present, text |-> text]

AllKeys == {"role", "basic_requirements", "examples", "model_type"}

NoRequest == Request("none", <<>>, <<>>, <<>>, <<>>, {}, <<>>)

NoResult == [status |-> "none", err |-> "none", idx |-> 0, value |-> NoState]

\* the dictionary optimize_prompt and optimize_with_streaming return
Returned(st) == [status |-> "completed", err |-> "none", idx |-> 0, value |-> st]

Raised(v) == [status |-> "rejected", err |-> v.err, idx |-> v.idx, value |-> NoState]

World ==
    [state |-> state, generator |-> generator, evaluator |-> evaluator,
     improver |-> improver, upd |-> -1, raised |-> FALSE,
     f |-> [cache |-> model_instances, next_id |-> next_id, environ |-> environ]]

\* ------------------------------------------------- agent executor: parsing
DEVELOPER_KEYWORDS ==
    {<<"d","e","v","e","l","o","p","e","r">>,
     <<"p","r","o","g","r","a","m","m","i","n","g">>,
     <<"c","o","d","e">>,
     <<"s","o","f","t","w","a","r","e">>}
WRITER_KEYWORDS ==
    {<<"w","r","i","t","e","r">>,
     <<"a","u","t","h","o","r">>,
     <<"c","o","n","t","e","n","t">>,
     <<"w","r","i","t","i","n","g">>}
DATA_KEYWORDS ==
    {<<"d","a","t","a">>,
     <<"a","n","a","l","y","s","i","s">>,
     <<"s","c","i","e","n","t","i","s","t">>,
     <<"a","n","a","l","y","t","i","c","s">>}

ROLE_GENERAL_USER == <<"g","e","n","e","r","a","l"," ","u","s","e","r">>
ROLE_SOFTWARE_DEVELOPERS ==
    <<"s","o","f","t","w","a","r","e"," ","d","e","v","e","l","o","p","e","r","s">>
ROLE_CONTENT_WRITERS == <<"c","o","n","t","e","n","t"," ","w","r","i","t","e","r","s">>
ROLE_DATA_SCIENTISTS == <<"d","a","t","a"," ","s","c","i","e","n","t","i","s","t","s">>

Preset(role, basic_requirements) ==
    Request("json_object", role, basic_requirements, <<>>, OPENAI, AllKeys, <<>>)

\* _parse_natural_language: the request a keyword stands for; kind "none"
\* when no keyword occurs (the code returns None)
ParseNaturalLanguage(text) ==
    LET content == Lower(Strip(text)) IN
    IF \E kw \in DEVELOPER_KEYWORDS : Contains(content, kw)
    THEN Preset(ROLE_SOFTWARE_DEVELOPERS, <<"c","o","d","e">>)
    ELSE IF \E kw \in WRITER_KEYWORDS : Contains(content, kw)
    THEN Preset(ROLE_CONTENT_WRITERS, <<"t","e","x","t">>)
    ELSE IF \E kw \in DATA_KEYWORDS : Contains(content, kw)
    THEN Preset(ROLE_DATA_SCIENTISTS, <<"r","e","p","o","r","t">>)
    ELSE NoRequest

\* _parse_input: JSON input is the decoded data, any other text goes through
\* _parse_natural_language
ParseInput(req) ==
    IF req.kind = "text" THEN ParseNaturalLanguage(req.text) ELSE req

\* dict.get(key, default) on the request data
Get(req, key, default) == IF key \in req.present THEN req[key] ELSE default

TextValues ==
    {<<" ","S","o","m","e"," ","C","o","d","e">>, <<"W","r","i","t","e","r">>,
     <<"a","n","a","l","y","t","i","c","s">>, <<"h","e","l","l","o">>}

\* no parser has been called
NotExtracted == [op |-> "none", value |-> <<>>]

\* ------------------------------------------------------------------ actions
Init ==
    /\ api_key \in KeyConfigs
    /\ enable_default_proxy = TRUE
    /\ environ = [k \in ProxyNames |-> <<>>]
    /\ model_instances = <<>>
    /\ next_id = 1
    /\ generator = NoAgent
    /\ evaluator = NoAgent
    /\ improver = NoAgent
    /\ entry = "none"
    /\ request = NoRequest
    /\ state = NoState
    /\ pc = "idle"
    /\ trace = <<>>
    /\ result = NoResult
    /\ events = <<>>
    /\ workflows = {}
    /\ returned = <<>>
    /\ response = <<>>
    /\ parse_result = NotExtracted
    /\ objects = <<>>
    /\ optimizer_workflow = 0
    /\ tasks = <<>>

\* the run starts: initial_state is built and the first stage is scheduled
Start(initial_state, via) ==
    /\ state' = initial_state
    /\ pc' = IF via = "web" THEN WebNextStage("START") ELSE NextStage("START")
    /\ result' = NoResult

\* the request is refused before a stage has run
Refuse(v) ==
    /\ state' = NoState
    /\ pc' = "rejected"
    /\ result' = Raised(v)

\* PromptOptimizerWorkflow.optimize_prompt called on a new workflow, up to
\* the start of the compiled graph
OptimizePrompt ==
    /\ pc = "idle"
    /\ \E role \in RoleValues, basic_requirements \in BasicRequirementsValues,
          examples \in ExampleLists, model_type \in ModelTypeValues :
          LET v == ValidateRequest(role, examples) IN
          /\ request' = Request("call", role, basic_requirements, examples,
                                model_type, AllKeys, <<>>)
          /\ IF v.ok
             THEN Start(InitialState(Strip(role), basic_requirements, examples,
                                     model_type), "optimize_prompt")
             ELSE Refuse(v)
    /\ entry' = "optimize_prompt"
    /\ UNCHANGED <<parserVars, runVars, configVars, factoryVars, agentVars, trace, events,
                   workflows, returned>>

\* an error that is logged and not enqueued
SendNothing(event_queue) == event_queue

\* PromptOptimizerAgentExecutor._send_error_message
SendErrorMessage(event_queue) == Append(event_queue, "error")

\* a check that lets every model type through
AnyModelType(model_type) == TRUE

\* the model type check of execute
SupportedModelType(model_type) == model_type \in {GEMINI, OPENAI}

\* what execute does with the request data data, once parsed: validation,
\* model type, start message, workflow lookup, optimize_prompt's validation
ExecuteData(data) ==
    LET v == ValidateRequestData(data)
        model_type == Lower(Get(data, "model_type", GEMINI))
        role == Get(data, "role", ROLE_GENERAL_USER)
        basic_requirements == Get(data, "basic_requirements", <<>>)
        examples == Get(data, "examples", <<>>)
        v2 == ValidateRequest(role, examples)
    IN  IF data.kind = "json_list"
        THEN /\ Refuse(Rejected("not_object", 0))
             /\ events' = SendErrorMessage(events)
             /\ UNCHANGED workflows
        ELSE IF ~v.ok
        THEN /\ Refuse(v)
             /\ events' = SendErrorMessage(events)
             /\ UNCHANGED workflows
        ELSE IF ~SupportedModelType(model_type)
        THEN /\ Refuse(Rejected("unsupported_model", 0))
             /\ events' = SendErrorMessage(events)
             /\ UNCHANGED workflows
        ELSE IF ~v2.ok
        THEN /\ Refuse(v2)
             /\ events' = SendErrorMessage(<<"start">>)
             /\ workflows' = workflows \cup {model_type}
        ELSE /\ Start(InitialState(Strip(role), basic_requirements, examples,
                                   model_type), "executor")
             /\ events' = <<"start">>
             /\ workflows' = workflows \cup {model_type}

\* PromptOptimizerAgentExecutor.execute, up to the start of the compiled graph
Execute ==
    /\ pc = "idle"
    /\ \E req \in
          {Request("empty", <<>>, <<>>, <<>>, <<>>, {}, <<>>),
           Request("json_falsy", <<>>, <<>>, <<>>, <<>>, {}, <<>>),
           Request("json_list", <<>>, <<>>, <<>>, <<>>, {}, <<>>)}
          \cup {Request("text", <<>>, <<>>, <<>>, <<>>, {}, t) : t \in TextValues}
          \cup {Request("json_object", r, b, e, m, AllKeys \ {k}, <<>>) :
                   r \in RoleValues, b \in BasicRequirementsValues,
                   e \in ExampleLists, m \in ModelTypeValues,
                   k \in AllKeys \cup {"none"}} :
          /\ request' = req
          /\ IF req.kind = "empty"
             THEN /\ Refuse(Rejected("no_input", 0))
                  /\ events' = SendErrorMessage(events)
                  /\ UNCHANGED workflows
             ELSE IF ParseInput(req).kind \in {"none", "json_falsy"}
             THEN /\ Refuse(Rejected("usage_help", 0))
                  /\ events' = <<"usage_help">>
                  /\ UNCHANGED workflows
             ELSE ExecuteData(ParseInput(req))
    /\ entry' = "executor"
    /\ UNCHANGED <<parserVars, runVars, configVars, factoryVars, agentVars, trace, returned>>

\* web.run_optimization: validate_inputs, _parse_examples and
\* optimize_with_streaming up to the first stage
RunOptimization ==
    /\ pc = "idle"
    /\ \E role \in RoleValues, basic_requirements \in BasicRequirementsValues,
          examples \in ExampleLists, model_type \in ModelTypeValues :
          LET req == Request("call", role, basic_requirements, examples,
                             model_type, AllKeys, <<>>)
              v == ValidateInputs(req, api_key)
          IN  /\ request' = req
              /\ IF v.ok
                 THEN /\ Start(InitialState(Strip(role), Strip(basic_requirements),
                                            ParseExamplesNormalized(examples),
                                            Lower(model_type)), "web")
                      /\ events' = <<"start", "validate", WebNextStage("START")>>
                 ELSE /\ Refuse(v)
                      /\ events' = <<"error">>
    /\ entry' = "web"
    /\ UNCHANGED <<parserVars, runVars, configVars, factoryVars, agentVars, trace, workflows,
                   returned>>

\* the position after a stage: the next node, or the end of the run
After(stage, via) ==
    LET next == IF via = "web" THEN WebNextStage(stage) ELSE NextStage(stage)
    IN  IF next = "END" THEN "done" ELSE next

\* optimize_prompt turns an exception of the graph into a RuntimeError, which
\* execute reports as an error message; optimize_with_streaming gives up when
\* the generate-prompt or the finalize call raises and goes on after the others
Aborts(w, stage, via) ==
    w.raised /\ (via # "web" \/ stage \in {"generate_prompt", "finalize"})

WorkflowFailed ==
    [status |-> "raised", err |-> "workflow_failed", idx |-> 0, value |-> NoState]

\* the node's update is merged and the next stage is scheduled; the web front
\* end yields the next stage's label
Advance(w, stage) ==
    /\ state' = IF w.raised THEN state ELSE Merge(state, w, entry)
    /\ generator' = w.generator
    /\ evaluator' = w.evaluator
    /\ improver' = w.improver
    /\ model_instances' = w.f.cache
    /\ next_id' = w.f.next_id
    /\ environ' = w.f.environ
    /\ trace' = Append(trace, [stage |-> stage,
                                step |-> IF w.raised THEN "raised" ELSE w.state.step])
    /\ pc' = IF Aborts(w, stage, entry) THEN "failed" ELSE After(stage, entry)
    /\ result' =
          IF Aborts(w, stage, entry) THEN WorkflowFailed
          ELSE IF After(stage, entry) = "done"
          THEN Returned(IF w.raised THEN state ELSE Merge(state, w, entry))
          ELSE result
    /\ events' =
          IF Aborts(w, stage, entry)
          THEN (CASE entry = "executor" -> SendErrorMessage(events)
                  [] entry = "web" -> Append(events, "error")
                  [] OTHER -> events)
          ELSE IF After(stage, entry) = "done"
          THEN (CASE entry = "web" -> Append(events, "done")
                  [] entry = "executor" -> Append(events, "result")
                  [] OTHER -> events)
          ELSE IF entry = "web" THEN Append(events, After(stage, entry))
          ELSE events
    /\ UNCHANGED <<parserVars, runVars, configVars, entry, request, workflows, returned>>

GenerateGuide ==
    /\ pc = "generate_guide"
    /\ \E o \in GuideOutcomes :
          \E w \in {GenerateGuideNode(World, o, api_key, enable_default_proxy)} :
              Advance(w, "generate_guide")

GeneratePrompt ==
    /\ pc = "generate_prompt"
    /\ \E o \in PromptOutcomes :
          \E w \in {GeneratePromptNode(World, o)} :
              Advance(w, "generate_prompt")

GenerateEvalGuide ==
    /\ pc = "generate_eval_guide"
    /\ \E o \in GuideOutcomes :
          \E w \in {GenerateEvalGuideNode(World, o, api_key, enable_default_proxy)} :
              Advance(w, "generate_eval_guide")

EvaluatePrompt ==
    /\ pc = "evaluate_prompt"
    /\ \E o \in EvaluationOutcomes :
          \E w \in {EvaluatePromptNode(World, o, api_key, enable_default_proxy)} :
              Advance(w, "evaluate_prompt")

ImprovePrompts ==
    /\ pc = "improve_prompts"
    /\ \E o \in ImproveOutcomes :
          \E w \in {ImprovePromptsNode(World, o, api_key, enable_default_proxy)} :
              Advance(w, "improve_prompts")

\* the finalize node and the return of the entry point: optimize_prompt and
\* optimize_with_streaming build the result, execute enqueues its rendering
Finalize ==
    /\ pc = "finalize"
    /\ \E w \in {FinalizeNode(World)} : Advance(w, "finalize")

\* ----------------------------------------------- ModelFactory used directly
MaxCalls == 3

\* model_type arguments of create_model; <<>> stands for None
CreateArguments == {<<>>, OPENAI, <<"O","p","e","n","A","I">>, GEMINI, MT_OTHER}

FactoryInit ==
    /\ api_key \in KeyConfigs
    /\ enable_default_proxy \in BOOLEAN
    /\ environ \in {[k \in ProxyNames |-> <<>>],
                     [k \in ProxyNames |->
                         IF k = "HTTP_PROXY" THEN <<"h",":","1">> ELSE <<>>]}
    /\ model_instances = <<>>
    /\ next_id = 1
    /\ generator = NoAgent
    /\ evaluator = NoAgent
    /\ improver = NoAgent
    /\ entry = "none"
    /\ request = NoRequest
    /\ state = NoState
    /\ pc = "idle"
    /\ trace = <<>>
    /\ result = NoResult
    /\ events = <<>>
    /\ workflows = {}
    /\ returned = <<>>
    /\ response = <<>>
    /\ parse_result = NotExtracted
    /\ objects = <<>>
    /\ optimizer_workflow = 0
    /\ tasks = <<>>

\* neither HTTPS_PROXY nor HTTP_PROXY is set (os.getenv gives the default "")
ProxyUnset(env) == env["HTTPS_PROXY"] = <<>> /\ env["HTTP_PROXY"] = <<>>

\* a caller's ModelFactory.create_model(model_type)
CreateModelCall ==
    /\ Len(returned) < MaxCalls
    /\ \E model_type \in CreateArguments :
          LET r == CreateModel(model_type,
                               [cache |-> model_instances, next_id |-> next_id,
                                environ |-> environ],
                               api_key, enable_default_proxy)
          IN  /\ model_instances' = r.f.cache
              /\ next_id' = r.f.next_id
              /\ environ' = r.f.environ
              /\ returned' = Append(returned,
                                    [op |-> "create_model", arg |-> model_type,
                                     ok |-> r.ok, model |-> r.model,
                                     unset |-> ProxyUnset(environ)])
    /\ UNCHANGED <<parserVars, runVars, configVars, agentVars, entry, request, state, pc,
                   trace, result, events, workflows>>

\* a caller's ModelFactory.clear_cache()
ClearCache ==
    /\ Len(returned) < MaxCalls
    /\ model_instances' = <<>>
    /\ returned' = Append(returned, [op |-> "clear_cache", arg |-> <<>>,
                                     ok |-> TRUE, model |-> NoModel,
                                     unset |-> ProxyUnset(environ)])
    /\ UNCHANGED <<parserVars, runVars, configVars, agentVars, environ, next_id, entry,
                   request, state, pc, trace, result, events, workflows>>

\* a caller removes the four proxy variables from os.environ
ClearProxyEnvironment ==
    /\ Len(returned) < MaxCalls
    /\ environ' = [k \in ProxyNames |-> <<>>]
    /\ returned' = Append(returned, [op |-> "clear_proxy", arg |-> <<>>,
                                     ok |-> TRUE, model |-> NoModel,
                                     unset |-> ProxyUnset(environ)])
    /\ UNCHANGED <<parserVars, runVars, configVars, agentVars, model_instances, next_id,
                   entry, request, state, pc, trace, result, events, workflows>>

FactoryNext ==
    \/ CreateModelCall
    \/ ClearCache
    \/ ClearProxyEnvironment

FactorySpec == FactoryInit /\ [][FactoryNext]_vars

\* ------------------------------------------- response parsers used directly
MaxLines == 4

\* lines a response to the improvement request is made of
AlternativeLines ==
    {ALTERNATIVE_MARK \o <<" ","1",":">>,
     ALTERNATIVE_MARK \o <<" ","2",":"," ">> \o FOCUS_OPEN \o <<" ","x","]">>,
     <<" ">> \o FOCUS_OPEN \o <<" ","y","]">>,
     <<"a","b">>,
     <<" ","c">>,
     <<>>,
     <<" ">>}

\* lines a response to the generation request is made of
PromptLines ==
    {PROMPT_MARK,
     PROMPT_MARK \o <<" ","p">>,
     DESIGN_PRINCIPLES_MARK,
     DESIGN_PRINCIPLES_MARK \o <<" ","o","f"," ">> \o PROMPT_MARK,
     ADDITIONAL_EXAMPLES_MARK,
     <<" ","u","s","e"," ","{","a","}">>,
     <<>>,
     <<"w","h","y">>}

\* the responses of at most MaxLines lines, as text
ResponseTexts ==
    {Join(ls, <<"\n">>) :
        ls \in UNION {[1..n -> AlternativeLines] \cup [1..n -> PromptLines] :
                         n \in 0..MaxLines}}

ParserInit ==
    /\ api_key = [k \in {OPENAI, GEMINI} |-> REAL_KEY]
    /\ enable_default_proxy = TRUE
    /\ environ = [k \in ProxyNames |-> <<>>]
    /\ model_instances = <<>>
    /\ next_id = 1
    /\ generator = NoAgent
    /\ evaluator = NoAgent
    /\ improver = NoAgent
    /\ entry = "none"
    /\ request = NoRequest
    /\ state = NoState
    /\ pc = "idle"
    /\ trace = <<>>
    /\ result = NoResult
    /\ events = <<>>
    /\ workflows = {}
    /\ returned = <<>>
    /\ response \in ResponseTexts
    /\ parse_result = NotExtracted
    /\ objects = <<>>
    /\ optimizer_workflow = 0
    /\ tasks = <<>>

\* a caller's PromptImproverAgent._extract_alternatives(response)
ExtractAlternativesCall ==
    /\ parse_result = NotExtracted
    /\ parse_result' = [op |-> "_extract_alternatives",
                     value |-> ExtractAlternatives(response)]
    /\ UNCHANGED <<response, runVars, configVars, factoryVars, agentVars, entry, request,
                   state, pc, trace, result, events, workflows, returned>>

\* a caller's PromptGeneratorAgent._extract_prompt_from_response(response)
ExtractPromptCall ==
    /\ parse_result = NotExtracted
    /\ parse_result' = [op |-> "_extract_prompt_from_response",
                     value |-> ExtractPromptFromResponse(response)]
    /\ UNCHANGED <<response, runVars, configVars, factoryVars, agentVars, entry, request,
                   state, pc, trace, result, events, workflows, returned>>

ParserNext ==
    \/ ExtractAlternativesCall
    \/ ExtractPromptCall

ParserSpec == ParserInit /\ [][ParserNext]_vars

\* ---------------------------------- several runs on shared workflow objects
MaxRuns == 2

\* a PromptOptimizerWorkflow as its constructor leaves it
NoWorkflow == [generator |-> NoAgent, evaluator |-> NoAgent, improver |-> NoAgent]

\* a run: wf is the workflow object it was called on (optimize_prompt) or
\* built (optimize_with_streaming, 0 before it is built), ran_on the objects
\* its stages ran on, called the kinds of the models its stages called
Task(via, initial_state, wf, at) ==
    [via |-> via, state |-> initial_state, pc |-> at, wf |-> wf,
     ran_on |-> {}, called |-> {}]

\* the world the node of task t sees when it runs on workflow object k
TaskWorld(t, k) ==
    [state |-> tasks[t].state, generator |-> objects[k].generator,
     evaluator |-> objects[k].evaluator, improver |-> objects[k].improver,
     upd |-> -1, raised |-> FALSE,
     f |-> [cache |-> model_instances, next_id |-> next_id, environ |-> environ]]

StageOutcomes(stage) ==
    CASE stage \in {"generate_guide", "generate_eval_guide"} -> GuideOutcomes
      [] stage = "generate_prompt" -> PromptOutcomes
      [] stage = "evaluate_prompt" -> EvaluationOutcomes
      [] stage = "improve_prompts" -> ImproveOutcomes
      [] OTHER -> {Fail}

\* the outcomes drawn for the stages of interleaved web runs: a failed call
\* or one well-formed reply
StreamOutcomes(stage) ==
    CASE stage \in {"generate_guide", "generate_eval_guide"} -> GuideOutcomes
      [] stage = "generate_prompt" -> {Fail, Reply(RESP_PROMPT_A)}
      [] stage = "evaluate_prompt" -> EvaluationOutcomes
      [] stage = "improve_prompts" -> {Fail, Reply(RESP_TIED_ALTERNATIVES)}
      [] OTHER -> {Fail}

StageNode(stage, w, o) ==
    CASE stage = "generate_guide" ->
            GenerateGuideNode(w, o, api_key, enable_default_proxy)
      [] stage = "generate_prompt" -> GeneratePromptNode(w, o)
      [] stage = "generate_eval_guide" ->
            GenerateEvalGuideNode(w, o, api_key, enable_default_proxy)
      [] stage = "evaluate_prompt" ->
            EvaluatePromptNode(w, o, api_key, enable_default_proxy)
      [] stage = "improve_prompts" ->
            ImprovePromptsNode(w, o, api_key, enable_default_proxy)
      [] OTHER -> FinalizeNode(w)

\* the agent a stage calls, after the stage's _ensure_model (generate-prompt
\* has none)
StageAgent(stage, w) ==
    CASE stage = "generate_guide" ->
            EnsureModel(w.generator, w.state.model_type, w.f, api_key,
                        enable_default_proxy)
      [] stage = "generate_prompt" -> [ok |-> TRUE, agent |-> w.generator, f |-> w.f]
      [] stage \in {"generate_eval_guide", "evaluate_prompt"} ->
            EnsureModel(w.evaluator, w.state.model_type, w.f, api_key,
                        enable_default_proxy)
      [] stage = "improve_prompts" ->
            EnsureModel(w.improver, w.state.model_type, w.f, api_key,
                        enable_default_proxy)
      [] OTHER -> [ok |-> FALSE, agent |-> NoAgent, f |-> w.f]

\* the checks a stage makes before it reaches its model call
ReachesCall(stage, w) ==
    CASE stage \in {"generate_guide", "generate_eval_guide"} -> w.state.role # <<>>
      [] stage = "generate_prompt" ->
            w.state.examples = <<>> \/ VariablesReadable(w.state.examples)
      [] stage = "evaluate_prompt" -> w.state.current_prompt # <<>>
      [] stage = "improve_prompts" ->
            w.state.current_prompt # <<>> /\ w.state.evaluations # <<>>
      [] OTHER -> FALSE

\* the kind of the model instance the stage calls ainvoke on, if it calls one
ModelCalled(stage, w) ==
    IF /\ ReachesCall(stage, w)
       /\ StageAgent(stage, w).ok
       /\ StageAgent(stage, w).agent.model # NoModel
    THEN {StageAgent(stage, w).agent.model.kind}
    ELSE {}

\* a run executes its next stage: optimize_prompt on the workflow object it
\* was called on, optimize_with_streaming on whatever optimizer.workflow is
\* when the stage starts
TaskStage(stage) ==
    /\ \E t \in DOMAIN tasks :
          /\ tasks[t].pc = stage
          /\ LET k == IF tasks[t].via = "web" THEN optimizer_workflow
                      ELSE tasks[t].wf
             IN  \E o \in (IF tasks[t].via = "web" THEN StreamOutcomes(stage)
                             ELSE StageOutcomes(stage)) :
                    \E w \in {StageNode(stage, TaskWorld(t, k), o)} :
                    /\ tasks' = [tasks EXCEPT ![t] =
                          [@ EXCEPT !.state = Merge(tasks[t].state, w, tasks[t].via),
                                    !.pc = After(stage, tasks[t].via),
                                    !.ran_on = @ \cup {k},
                                    !.called = @ \cup ModelCalled(stage, TaskWorld(t, k))]]
                    /\ objects' = [objects EXCEPT ![k] =
                          [generator |-> w.generator, evaluator |-> w.evaluator,
                           improver |-> w.improver]]
                    /\ model_instances' = w.f.cache
                    /\ next_id' = w.f.next_id
                    /\ environ' = w.f.environ
    /\ UNCHANGED <<parserVars, configVars, agentVars, optimizer_workflow, entry,
                   request, state, pc, trace, result, events, workflows, returned>>

TaskGenerateGuide == TaskStage("generate_guide")
TaskGeneratePrompt == TaskStage("generate_prompt")
TaskGenerateEvalGuide == TaskStage("generate_eval_guide")
TaskEvaluatePrompt == TaskStage("evaluate_prompt")
TaskImprovePrompts == TaskStage("improve_prompts")
TaskFinalize == TaskStage("finalize")

\* requests that pass the checks of optimize_prompt and of the web front end
RunModelTypes == {OPENAI, GEMINI}
RunExamples == {<<>>, <<EX_AB>>}

\* the program before any run, with the workflow objects built so far
BeforeRuns(built) ==
    /\ api_key \in KeyConfigs
    /\ enable_default_proxy = TRUE
    /\ environ = [k \in ProxyNames |-> <<>>]
    /\ model_instances = <<>>
    /\ next_id = 1
    /\ generator = NoAgent
    /\ evaluator = NoAgent
    /\ improver = NoAgent
    /\ entry = "none"
    /\ request = NoRequest
    /\ state = NoState
    /\ pc = "idle"
    /\ trace = <<>>
    /\ result = NoResult
    /\ events = <<>>
    /\ workflows = {}
    /\ returned = <<>>
    /\ response = <<>>
    /\ parse_result = NotExtracted
    /\ objects = built
    /\ optimizer_workflow = 0
    /\ tasks = <<>>

\* one PromptOptimizerWorkflow object, used for one optimize_prompt run
\* after the other
RerunInit == BeforeRuns(<<NoWorkflow>>)

\* optimize_prompt is called on the workflow object once the run before it
\* has returned
OptimizePromptAgain ==
    /\ Len(tasks) < MaxRuns
    /\ \A t \in DOMAIN tasks : tasks[t].pc = "done"
    /\ \E model_type \in RunModelTypes, examples \in RunExamples :
          tasks' = Append(tasks,
                      Task("optimize_prompt",
                           InitialState(Strip(ROLE_DEV), <<"r">>, examples, model_type),
                           1, NextStage("START")))
    /\ UNCHANGED <<parserVars, configVars, factoryVars, agentVars, objects,
                   optimizer_workflow, entry, request, state, pc, trace, result,
                   events, workflows, returned>>

RerunNext ==
    \/ OptimizePromptAgain
    \/ TaskGenerateGuide
    \/ TaskGeneratePrompt
    \/ TaskGenerateEvalGuide
    \/ TaskEvaluatePrompt
    \/ TaskImprovePrompts
    \/ TaskFinalize

RerunSpec == RerunInit /\ [][RerunNext]_vars

\* the web front end: the module-level StreamingOptimizer with no workflow yet
StreamingInit ==
    /\ BeforeRuns(<<>>)
    /\ api_key = [k \in {OPENAI, GEMINI} |-> REAL_KEY]

\* optimizer.optimize_with_streaming is called and runs up to its first
\* yield, before it builds its workflow; another call may start while this
\* one is suspended
OptimizeWithStreaming ==
    /\ Len(tasks) < MaxRuns
    /\ \E model_type \in RunModelTypes, examples \in {<<>>} :
          tasks' = Append(tasks,
                      Task("web",
                           InitialState(Strip(ROLE_DEV), Strip(<<"r">>), examples,
                                        Lower(model_type)),
                           0, "init_workflow"))
    /\ UNCHANGED <<parserVars, configVars, factoryVars, agentVars, objects,
                   optimizer_workflow, entry, request, state, pc, trace, result,
                   events, workflows, returned>>

\* a suspended call resumes: self.workflow = PromptOptimizerWorkflow(), then
\* the initial state is built and the call yields again
InitWorkflow ==
    /\ \E t \in DOMAIN tasks :
          /\ tasks[t].pc = "init_workflow"
          /\ objects' = Append(objects, NoWorkflow)
          /\ optimizer_workflow' = Len(objects) + 1
          /\ tasks' = [tasks EXCEPT ![t].wf = Len(objects) + 1,
                                    ![t].pc = WebNextStage("START")]
    /\ UNCHANGED <<parserVars, configVars, factoryVars, agentVars, entry, request,
                   state, pc, trace, result, events, workflows, returned>>

StreamingNext ==
    \/ OptimizeWithStreaming
    \/ InitWorkflow
    \/ TaskGenerateGuide
    \/ TaskGeneratePrompt
    \/ TaskGenerateEvalGuide
    \/ TaskEvaluatePrompt
    \/ TaskImprovePrompts
    \/ TaskFinalize

StreamingSpec == StreamingInit /\ [][StreamingNext]_vars

\* ------------- the same request run by optimize_prompt and by the web stepper
\* requests that both entry points accept
BothRoles == {ROLE_DEV, <<"d","e","v">>}
BothBasicRequirements == {<<"r">>, <<" ","r">>}
BothExamples == {e \in ExampleLists : ValidateRequest(ROLE_DEV, e).ok}
BothModelTypes == ModelTypeValues \cup {GEMINI}

\* two new workflow objects, one for each entry point
BothInit == BeforeRuns(<<NoWorkflow, NoWorkflow>>)

\* optimize_prompt (run 1) and optimize_with_streaming (run 2) are called
\* with the same arguments and run up to their first stage
BothStart ==
    /\ tasks = <<>>
    /\ \E role \in BothRoles, basic_requirements \in BothBasicRequirements,
          examples \in BothExamples, model_type \in BothModelTypes :
          /\ tasks' =
                <<Task("optimize_prompt",
                       InitialState(Strip(role), basic_requirements, examples,
                                    model_type),
                       1, NextStage("START")),
                  Task("web",
                       InitialState(Strip(role), Strip(basic_requirements),
                                    examples, Lower(model_type)),
                       2, WebNextStage("START"))>>
          /\ optimizer_workflow' = 2
    /\ UNCHANGED <<parserVars, configVars, factoryVars, agentVars, objects, entry,
                   request, state, pc, trace, result, events, workflows, returned>>

\* both runs execute the stage and the model gives both the same outcome:
\* first the compiled graph's node on workflow 1, then the web stepper's call
\* of the node on workflow 2
BothStage(stage) ==
    /\ Len(tasks) = 2
    /\ tasks[1].pc = stage
    /\ tasks[2].pc = stage
    /\ \E o \in StageOutcomes(stage) :
          \E w1 \in {StageNode(stage, TaskWorld(1, 1), o)} :
          \E w2 \in {StageNode(stage, [TaskWorld(2, 2) EXCEPT !.f = w1.f], o)} :
              /\ tasks' =
                    <<[tasks[1] EXCEPT
                          !.state = Merge(tasks[1].state, w1, "optimize_prompt"),
                          !.pc = After(stage, "optimize_prompt"),
                          !.ran_on = @ \cup {1},
                          !.called = @ \cup ModelCalled(stage, TaskWorld(1, 1))],
                      [tasks[2] EXCEPT
                          !.state = Merge(tasks[2].state, w2, "web"),
                          !.pc = After(stage, "web"),
                          !.ran_on = @ \cup {2},
                          !.called = @ \cup ModelCalled(stage,
                                         [TaskWorld(2, 2) EXCEPT !.f = w1.f])]>>
              /\ objects' =
                    <<[generator |-> w1.generator, evaluator |-> w1.evaluator,
                       improver |-> w1.improver],
                      [generator |-> w2.generator, evaluator |-> w2.evaluator,
                       improver |-> w2.improver]>>
              /\ model_instances' = w2.f.cache
              /\ next_id' = w2.f.next_id
              /\ environ' = w2.f.environ
    /\ UNCHANGED <<parserVars, configVars, agentVars, optimizer_workflow, entry,
                   request, state, pc, trace, result, events, workflows, returned>>

BothGenerateGuide == BothStage("generate_guide")
BothGeneratePrompt == BothStage("generate_prompt")
BothGenerateEvalGuide == BothStage("generate_eval_guide")
BothEvaluatePrompt == BothStage("evaluate_prompt")
BothImprovePrompts == BothStage("improve_prompts")
BothFinalize == BothStage("finalize")

BothNext ==
    \/ BothStart
    \/ BothGenerateGuide
    \/ BothGeneratePrompt
    \/ BothGenerateEvalGuide
    \/ BothEvaluatePrompt
    \/ BothImprovePrompts
    \/ BothFinalize

BothSpec == BothInit /\ [][BothNext]_vars

(***************************************************************************)
(* StreamingOptimizer._parse_examples, the simple text format               *)
(***************************************************************************)

MaxExampleLines == 4

INPUT_LABEL == <<"i","n","p","u","t",":">>
OUTPUT_LABEL == <<"o","u","t","p","u","t",":">>
TEXT_KEY == <<"t","e","x","t">>

\* '=' in line
HasEquals(line) == \E i \in 1..Len(line) : line[i] = "="

\* line.split('=', 1), both parts stripped
SplitEquals(line) ==
    LET i == CHOOSE k \in 1..Len(line) :
                 line[k] = "=" /\ \A j \in 1..(k - 1) : line[j] # "="
    IN  [key |-> Strip(SubSeq(line, 1, i - 1)),
         value |-> Strip(SubSeq(line, i + 1, Len(line)))]

\* a dict is the sequence of its items in insertion order
\* d.get(key, default)
DictGet(d, key, default) ==
    IF \E i \in 1..Len(d) : d[i].key = key
    THEN d[CHOOSE i \in 1..Len(d) : d[i].key = key].value
    ELSE default

\* d[key] = value
DictSet(d, key, value) ==
    IF \E i \in 1..Len(d) : d[i].key = key
    THEN [i \in 1..Len(d) |-> IF d[i].key = key
                              THEN [key |-> key, value |-> value] ELSE d[i]]
    ELSE Append(d, [key |-> key, value |-> value])

\* json.dumps(d, ensure_ascii=False) of a dict of strings that hold no
\* quote, backslash or control character
JsonDumps(d) ==
    <<"{">> \o
    Join([i \in 1..Len(d) |->
              <<"\"">> \o d[i].key \o <<"\"", ":", " ", "\"">> \o d[i].value \o <<"\"">>],
         <<",", " ">>) \o
    <<"}">>

\* if current_input and current_output: examples.append({...})
AppendExample(examples, current_input, current_output) ==
    IF current_input # <<>> /\ current_output # <<>>
    THEN Append(examples, [input |-> JsonDumps(current_input),
                           output |-> Strip(current_output)])
    ELSE examples

\* the loop over the lines and the append of the last example
RECURSIVE ParseTextLines(_, _, _, _, _)
ParseTextLines(lines, examples, current_input, current_output, mode) ==
    IF lines = <<>>
    THEN AppendExample(examples, current_input, current_output)
    ELSE LET line == Head(lines)
             line_lower == Lower(line)
         IN  IF StartsWith(line_lower, INPUT_LABEL)
             THEN ParseTextLines(Tail(lines),
                                 AppendExample(examples, current_input, current_output),
                                 <<>>, <<>>, "input")
             ELSE IF StartsWith(line_lower, OUTPUT_LABEL)
             THEN ParseTextLines(Tail(lines), examples, current_input,
                                 Strip(SubSeq(line, 8, Len(line))), "output")
             ELSE IF mode = "input"
             THEN IF HasEquals(line)
                  THEN ParseTextLines(Tail(lines), examples,
                                      DictSet(current_input, SplitEquals(line).key,
                                              SplitEquals(line).value),
                                      current_output, mode)
                  ELSE ParseTextLines(Tail(lines), examples,
                                      DictSet(current_input, TEXT_KEY,
                                              DictGet(current_input, TEXT_KEY, <<>>)
                                                  \o <<" ">> \o line),
                                      current_output, mode)
             ELSE IF mode = "output"
             THEN ParseTextLines(Tail(lines), examples, current_input,
                                 current_output \o <<"\n">> \o line, mode)
             ELSE ParseTextLines(Tail(lines), examples, current_input,
                                 current_output, mode)

\* [line.strip() for line in examples_text.split('\n') if line.strip()]
StrippedLines(text) ==
    LET lines == SplitLines(text)
        kept == SelectSeq(lines, LAMBDA l : ~IsBlank(l))
    IN  [i \in 1..Len(kept) |-> Strip(kept[i])]

\* StreamingOptimizer._parse_examples(examples_text) for a text that holds
\* no carriage return and does not start with '['
ParseExamplesText(examples_text) ==
    IF IsBlank(examples_text) THEN <<>>
    ELSE ParseTextLines(StrippedLines(Strip(examples_text)), <<>>, <<>>, <<>>, "none")

\* the lines the example texts are made of
ExampleLines ==
    {<<>>,
     <<"I","n","p","u","t",":">>,
     <<"I","n","p","u","t",":"," ","q">>,
     <<"O","u","t","p","u","t",":">>,
     <<"O","u","t","p","u","t",":"," ","y">>,
     <<" ","o","u","t","p","u","t",":","z">>,
     <<"a","=","1">>,
     <<"t">>}

ExampleTexts ==
    {Join(ls, <<"\n">>) : ls \in UNION {[1..n -> ExampleLines] : n \in 0..MaxExampleLines}}

ExamplesInit ==
    /\ api_key = [k \in {OPENAI, GEMINI} |-> REAL_KEY]
    /\ enable_default_proxy = TRUE
    /\ environ = [k \in ProxyNames |-> <<>>]
    /\ model_instances = <<>>
    /\ next_id = 1
    /\ generator = NoAgent
    /\ evaluator = NoAgent
    /\ improver = NoAgent
    /\ entry = "none"
    /\ request = NoRequest
    /\ state = NoState
    /\ pc = "idle"
    /\ trace = <<>>
    /\ result = NoResult
    /\ events = <<>>
    /\ workflows = {}
    /\ returned = <<>>
    /\ response \in ExampleTexts
    /\ parse_result = NotExtracted
    /\ objects = <<>>
    /\ optimizer_workflow = 0
    /\ tasks = <<>>

\* a caller's StreamingOptimizer._parse_examples(examples_text)
ParseExamplesCall ==
    /\ parse_result = NotExtracted
    /\ parse_result' = [op |-> "_parse_examples",
                        value |-> ParseExamplesText(response)]
    /\ UNCHANGED <<response, runVars, configVars, factoryVars, agentVars, entry, request,
                   state, pc, trace, result, events, workflows, returned>>

ExamplesNext == ParseExamplesCall

ExamplesSpec == ExamplesInit /\ [][ExamplesNext]_vars

(***************************************************************************)
(* validate_prompt and extract_variables of the web interface               *)
(***************************************************************************)

MaxTokens == 3
MaxDefinitions == 2

\* re.findall(r'\{([^}]+)\}', prompt): the matches from left to right
RECURSIVE FindallVariables(_)
FindallVariables(s) ==
    IF \A i \in 1..Len(s) : s[i] # "{" THEN <<>>
    ELSE LET i == CHOOSE k \in 1..Len(s) :
                     s[k] = "{" /\ \A j \in 1..(k - 1) : s[j] # "{"
         IN  IF \A j \in (i + 1)..Len(s) : s[j] # "}" THEN <<>>
             ELSE LET j == CHOOSE k \in (i + 1)..Len(s) :
                              s[k] = "}" /\ \A m \in (i + 1)..(k - 1) : s[m] # "}"
                  IN  IF j = i + 1
                      THEN FindallVariables(SubSeq(s, i + 1, Len(s)))
                      ELSE <<SubSeq(s, i + 1, j - 1)>>
                               \o FindallVariables(SubSeq(s, j + 1, Len(s)))

\* extract_variables(prompt): list(set(variables)), a list in no fixed order
ExtractVariables(prompt) ==
    IF prompt = <<>> THEN {}
    ELSE {FindallVariables(prompt)[i] : i \in 1..Len(FindallVariables(prompt))}

\* faulty variant of Replace: only the first occurrence is replaced
ReplaceOnce(s, old, new) ==
    IF ~Contains(s, old) THEN s
    ELSE LET i == CHOOSE k \in 1..(Len(s) - Len(old) + 1) :
                     /\ SubSeq(s, k, k + Len(old) - 1) = old
                     /\ \A j \in 1..(k - 1) : SubSeq(s, j, j + Len(old) - 1) # old
         IN  SubSeq(s, 1, i - 1) \o new \o SubSeq(s, i + Len(old), Len(s))

\* s.replace(old, new) for a non-empty old
RECURSIVE Replace(_, _, _)
Replace(s, old, new) ==
    IF ~Contains(s, old) THEN s
    ELSE LET i == CHOOSE k \in 1..(Len(s) - Len(old) + 1) :
                     /\ SubSeq(s, k, k + Len(old) - 1) = old
                     /\ \A j \in 1..(k - 1) : SubSeq(s, j, j + Len(old) - 1) # old
         IN  SubSeq(s, 1, i - 1) \o new
                 \o Replace(SubSeq(s, i + Len(old), Len(s)), old, new)

\* the loop over the definition lines: the dict of the definitions, or the
\* first line that is returned as a format error
RECURSIVE ParseDefinitions(_, _)
ParseDefinitions(lines, var_dict) ==
    IF lines = <<>> THEN [ok |-> TRUE, var_dict |-> var_dict]
    ELSE LET line == Strip(Head(lines))
         IN  IF HasEquals(line)
             THEN IF SplitEquals(line).key # <<>> /\ SplitEquals(line).value # <<>>
                  THEN ParseDefinitions(Tail(lines),
                                        DictSet(var_dict, SplitEquals(line).key,
                                                SplitEquals(line).value))
                  ELSE [ok |-> FALSE, line |-> line, rule |-> "key or value empty"]
             ELSE IF line # <<>>
             THEN [ok |-> FALSE, line |-> line, rule |-> "not key=value"]
             ELSE ParseDefinitions(Tail(lines), var_dict)

\* for key, value in var_dict.items(): test_prompt.replace('{key}', value)
RECURSIVE ReplaceVariables(_, _)
ReplaceVariables(test_prompt, var_dict) ==
    IF var_dict = <<>> THEN test_prompt
    ELSE ReplaceVariables(Replace(test_prompt,
                                  <<"{">> \o Head(var_dict).key \o <<"}">>,
                                  Head(var_dict).value),
                          Tail(var_dict))

\* validate_prompt(prompt, variables): the message by its kind and its parts
ValidatePrompt(prompt, variables) ==
    IF prompt = <<>>
    THEN [kind |-> "prompt empty"]
    ELSE IF ~IsBlank(variables)
    THEN LET defs == ParseDefinitions(SplitLines(Strip(variables)), <<>>)
         IN  IF ~defs.ok
             THEN [kind |-> "format error", line |-> defs.line, rule |-> defs.rule]
             ELSE LET test_prompt == ReplaceVariables(prompt, defs.var_dict)
                      remaining_vars == ExtractVariables(test_prompt)
                  IN  IF remaining_vars # {}
                      THEN [kind |-> "undefined", listed |-> remaining_vars,
                            prompt |-> test_prompt]
                      ELSE [kind |-> "passed", prompt |-> test_prompt]
    ELSE IF ExtractVariables(prompt) # {}
    THEN [kind |-> "undefined, none defined", listed |-> ExtractVariables(prompt),
          prompt |-> prompt]
    ELSE [kind |-> "passed, no variables", prompt |-> prompt]

\* the pieces the prompts are made of
PromptTokens == {<<"{","a","}">>, <<"{","b","}">>, <<"{">>, <<"h">>}

PromptTexts ==
    {Join(ts, <<>>) : ts \in UNION {[1..n -> PromptTokens] : n \in 0..MaxTokens}}

\* the lines the variable definitions are made of
DefinitionLines ==
    {<<>>,
     <<"a","=","1">>,
     <<" ","b"," ","="," ","2"," ">>,
     <<"a","=","{","b","}">>,
     <<"b","=">>,
     <<"o","o","p","s">>}

DefinitionTexts ==
    {Join(ls, <<"\n">>) : ls \in UNION {[1..n -> DefinitionLines] : n \in 0..MaxDefinitions}}

ValidateInit ==
    /\ api_key = [k \in {OPENAI, GEMINI} |-> REAL_KEY]
    /\ enable_default_proxy = TRUE
    /\ environ = [k \in ProxyNames |-> <<>>]
    /\ model_instances = <<>>
    /\ next_id = 1
    /\ generator = NoAgent
    /\ evaluator = NoAgent
    /\ improver = NoAgent
    /\ entry = "none"
    /\ request = NoRequest
    /\ state = NoState
    /\ pc = "idle"
    /\ trace = <<>>
    /\ result = NoResult
    /\ events = <<>>
    /\ workflows = {}
    /\ returned = <<>>
    /\ response \in PromptTexts
    /\ parse_result = NotExtracted
    /\ objects = <<>>
    /\ optimizer_workflow = 0
    /\ tasks = <<>>

\* a caller's validate_prompt(prompt, variables) on the prompt held in response
ValidatePromptCall ==
    /\ parse_result = NotExtracted
    /\ \E variables \in DefinitionTexts :
           parse_result' = [op |-> "validate_prompt",
                            variables |-> variables,
                            value |-> ValidatePrompt(response, variables)]
    /\ UNCHANGED <<response, runVars, configVars, factoryVars, agentVars, entry, request,
                   state, pc, trace, result, events, workflows, returned>>

ValidateNext == ValidatePromptCall

ValidateSpec == ValidateInit /\ [][ValidateNext]_vars

Next ==
    \/ OptimizePrompt
    \/ Execute
    \/ RunOptimization
    \/ GenerateGuide
    \/ GeneratePrompt
    \/ GenerateEvalGuide
    \/ EvaluatePrompt
    \/ ImprovePrompts
    \/ Finalize

Spec == Init /\ [][Next]_vars

\* ================================================================== claims
StageNames == {StageOrder[i] : i \in 1..Len(StageOrder)}

TraceStages == [i \in 1..Len(trace) |-> trace[i].stage]
TraceSteps == [i \in 1..Len(trace) |-> trace[i].step]

ViaOptimizePrompt == entry \in {"optimize_prompt", "executor"}

\* s has a character that strip() keeps
HasText(s) == \E i \in 1..Len(s) : s[i] \notin WS

\* the nodes run so far are the first nodes of the fixed order, the node
\* scheduled is the next one of that order, and a finished run ran all six
InFixedOrder ==
    /\ Len(trace) <= Len(StageOrder)
    /\ TraceStages = SubSeq(StageOrder, 1, Len(trace))
    /\ pc \in StageNames => pc = StageOrder[Len(trace) + 1]
    /\ pc = "done" => TraceStages = StageOrder
    /\ pc \in {"idle", "rejected"} => trace = <<>>

\* C1: every run of optimize_prompt that passes validation executes the six
\* stages exactly once each, in the order generate_guide, generate_prompt,
\* generate_eval_guide, evaluate_prompt, improve_prompts, finalize, whatever
\* the stages' outcomes, and then ends: every step of a run executes the one
\* stage that is due and nothing else, so the sixth step of a run is finalize
\* and leaves no stage due.
C1_SixStagesInOrderThenEnd ==
    /\ [](ViaOptimizePrompt => InFixedOrder /\ pc # "failed")
    /\ [][(ViaOptimizePrompt /\ pc \in StageNames)
            => /\ Len(trace') = Len(trace) + 1
               /\ trace'[Len(trace')].stage = pc
               /\ pc' = IF pc = "finalize" THEN "done"
                         ELSE StageOrder[Len(trace') + 1]]_vars

C1_Witness ==
    /\ entry = "optimize_prompt"
    /\ pc = "done"
    /\ TraceStages = StageOrder
    /\ TraceSteps[2] = "prompt_generated"
    /\ TraceSteps[4] = "evaluation_fallback"

\* what a stage's update may write into step
StepsOf(stage) ==
    CASE stage = "generate_guide" -> {"guide_generated", "guide_skipped"}
      [] stage = "generate_prompt" -> {"prompt_generated", "prompt_fallback"}
      [] stage = "generate_eval_guide" ->
            {"evaluation_guide_generated", "eval_guide_skipped"}
      [] stage = "evaluate_prompt" -> {"prompt_evaluated", "evaluation_fallback"}
      [] stage = "improve_prompts" ->
            {"alternatives_generated", "improvement_fallback"}
      [] stage = "finalize" -> {"completed"}

AllFallbackSteps ==
    <<"guide_skipped", "prompt_fallback", "eval_guide_skipped",
      "evaluation_fallback", "improvement_fallback", "completed">>

\* C2: whichever stages fail, the run is not aborted: a failing stage writes
\* its degraded default (the fallback prompt, the basic evaluation, the
\* current prompt as only alternative), the later stages still run, and
\* optimize_prompt returns a result whose step is "completed".
C2_PerStageFallback ==
    ViaOptimizePrompt =>
        /\ pc # "failed"
        /\ result.status # "raised"
        /\ \A i \in 1..Len(trace) : trace[i].step \in StepsOf(trace[i].stage)
        /\ pc \in StageNames => Len(trace) < Len(StageOrder)
        /\ \A i \in 1..Len(trace) :
              /\ trace[i].step = "prompt_fallback"
                    => state.current_prompt = FALLBACK_PROMPT
              /\ trace[i].step = "evaluation_fallback"
                    => state.evaluations = <<BASIC_EVALUATION>>
              /\ trace[i].step = "improvement_fallback"
                    => state.alternative_prompts =
                          IF state.current_prompt = <<>> THEN <<>>
                          ELSE <<state.current_prompt>>
        /\ pc = "done" =>
              /\ Len(trace) = Len(StageOrder)
              /\ result.status = "completed"
              /\ result.value.step = "completed"

C2_Witness ==
    /\ entry = "optimize_prompt"
    /\ pc = "done"
    /\ TraceSteps = AllFallbackSteps
    /\ result.status = "completed"
    /\ result.value.step = "completed"
    /\ result.value.alternative_prompts = <<FALLBACK_PROMPT>>

\* x is the first element of maximal length of the non-empty list alts
FirstLongest(x, alts) ==
    \E i \in 1..Len(alts) :
        /\ alts[i] = x
        /\ \A j \in 1..Len(alts) : Len(alts[j]) <= Len(x)
        /\ \A j \in 1..(i - 1) : Len(alts[j]) < Len(x)

\* C3 as stated: finalize sets final_prompt to the first alternative of
\* maximal length when there are alternatives, and to current_prompt when
\* there are none.
C3_FinalIsLongestOrCurrent ==
    pc = "done" =>
        /\ state.alternative_prompts # <<>>
              => FirstLongest(state.final_prompt, state.alternative_prompts)
        /\ state.alternative_prompts = <<>>
              => state.final_prompt = state.current_prompt

\* C3, amended: the text finalize selects is the first alternative of maximal
\* length when there are alternatives and current_prompt when there are none;
\* final_prompt is the selected text, or the static default prompt when the
\* selected text is blank (which an empty list of alternatives always gives,
\* because the list is empty only when current_prompt is empty).
C3_FinalIsSelectionOrDefault ==
    pc = "done" =>
        /\ state.alternative_prompts # <<>>
              => /\ FirstLongest(state.final_prompt, state.alternative_prompts)
                 /\ HasText(state.final_prompt)
        /\ state.alternative_prompts = <<>>
              => /\ state.current_prompt = <<>>
                 /\ state.final_prompt = FALLBACK_PROMPT

C3_Witness ==
    /\ pc = "done"
    /\ state.alternative_prompts = <<<<"a","b">>, <<"c","d">>>>
    /\ state.final_prompt = <<"a","b">>
    /\ state.current_prompt # <<"a","b">>

\* C4: whenever optimize_prompt returns, final_recommendation has text, and
\* it is the static default prompt when the selected text was blank.
C4_RecommendationNotBlank ==
    result.status = "completed" =>
        /\ HasText(result.value.final_prompt)
        /\ (result.value.alternative_prompts = <<>>
               /\ ~HasText(result.value.current_prompt))
              => result.value.final_prompt = FALLBACK_PROMPT

C4_Witness ==
    /\ entry = "executor"
    /\ result.status = "completed"
    /\ result.value.current_prompt = <<>>
    /\ result.value.alternative_prompts = <<>>
    /\ result.value.final_prompt = FALLBACK_PROMPT

\* ------------------------------------------------- claims about validation
\* the run was given request fields: a Python call, or a JSON object
IsRequest == entry # "none" /\ request.kind \in {"call", "json_object"}

\* the request was refused and nothing of the pipeline happened: no stage
\* ran, no model was created, no agent was touched
NothingRan ==
    /\ pc = "rejected"
    /\ result.status = "rejected"
    /\ state = NoState
    /\ trace = <<>>
    /\ model_instances = <<>>
    /\ next_id = 1
    /\ generator = NoAgent
    /\ evaluator = NoAgent
    /\ improver = NoAgent

\* C5: on each of the three entry points a request whose role is empty or
\* whitespace-only is refused with a validation error before any stage runs
\* and before any model is created; the error is the one about the empty
\* role, except that the executor reports a missing basic_requirements key
\* first.
C5_BlankRoleRejected ==
    (IsRequest /\ "role" \in request.present /\ ~HasText(request.role)) =>
        /\ NothingRan
        /\ result.err =
              IF entry = "executor" /\ "basic_requirements" \notin request.present
              THEN "missing_basic_requirements"
              ELSE "role_empty"

C5_Witness ==
    /\ entry = "web"
    /\ request.role = <<" ">>
    /\ request.basic_requirements = <<"r">>
    /\ result.err = "role_empty"
    /\ NothingRan

\* C6 as stated: on every entry point, the direct call of optimize_prompt
\* included, a request whose basic_requirements is empty or whitespace-only
\* is refused and no stage runs for it.
C6_BlankBasicRequirementsRejected ==
    (IsRequest /\ "basic_requirements" \in request.present
       /\ ~HasText(request.basic_requirements)) =>
        /\ pc = "rejected"
        /\ trace = <<>>

\* defects of one example
BadShape(e) == ~e.isdict \/ ~({"input", "output"} \subseteq e.has)
NotString(e) == e.input.t # "str" \/ e.output.t # "str"
BlankText(e) == ~HasText(e.input.s) \/ ~HasText(e.output.s)
NotJsonObject(e) == ~JsonLoads(e.input.s).ok \/ ~JsonLoads(e.input.s).isdict

\* the example is no dictionary, lacks a key, or has a blank input or output
Offending(e) ==
    \/ BadShape(e)
    \/ e.input.t = "str" /\ ~HasText(e.input.s)
    \/ e.output.t = "str" /\ ~HasText(e.output.s)

FirstOffending(examples) ==
    CHOOSE i \in 1..Len(examples) :
        /\ Offending(examples[i])
        /\ \A j \in 1..(i - 1) : ~Offending(examples[j])

\* the example cannot be used as it stands
Unusable(e) == BadShape(e) \/ NotString(e) \/ BlankText(e) \/ NotJsonObject(e)

\* example i's input is no JSON object or has other field names than the
\* first example's input
Inconsistent(examples, i) ==
    \/ NotJsonObject(examples[i])
    \/ JsonLoads(examples[i].input.s).keys # JsonLoads(examples[1].input.s).keys

ConsistentFields(examples) ==
    \A i \in 1..Len(examples) : ~Inconsistent(examples, i)

FirstInconsistent(examples) ==
    CHOOSE i \in 1..Len(examples) :
        /\ Inconsistent(examples, i)
        /\ \A j \in 1..(i - 1) : ~Inconsistent(examples, j)

\* the example the error is about: optimize_prompt makes every check on an
\* example before it looks at the next one; the executor first looks at all
\* examples without comparing field names
FirstFailing(examples, via) ==
    IF via = "executor" /\ \E i \in 1..Len(examples) : Unusable(examples[i])
    THEN CHOOSE i \in 1..Len(examples) :
            /\ Unusable(examples[i])
            /\ \A j \in 1..(i - 1) : ~Unusable(examples[j])
    ELSE CHOOSE i \in 1..Len(examples) :
            /\ Unusable(examples[i]) \/ Inconsistent(examples, i)
            /\ \A j \in 1..(i - 1) :
                  ~(Unusable(examples[j]) \/ Inconsistent(examples, j))

\* the error a failing example gives; a direct call with an input or output
\* that is no string ends in an AttributeError, which names no example
ErrorOf(e, via) ==
    IF ~e.isdict THEN "not_dict"
    ELSE IF ~({"input", "output"} \subseteq e.has) THEN "missing_keys"
    ELSE IF via = "executor" /\ NotString(e) THEN "not_string"
    ELSE IF e.input.t # "str" THEN "attribute_error"
    ELSE IF ~HasText(e.input.s) THEN "blank"
    ELSE IF e.output.t # "str" THEN "attribute_error"
    ELSE IF ~HasText(e.output.s) THEN "blank"
    ELSE IF NotJsonObject(e) THEN "not_json_object"
    ELSE "inconsistent_fields"

\* the request reaches the example checks of optimize_prompt or of the
\* executor: the fields checked before the examples are in order
ReachesExampleChecks ==
    /\ ViaOptimizePrompt
    /\ IsRequest
    /\ HasText(request.role)
    /\ entry = "executor" =>
          /\ {"role", "basic_requirements", "examples"} \subseteq request.present
          /\ HasText(request.basic_requirements)

HasOffendingExample ==
    /\ ViaOptimizePrompt
    /\ IsRequest
    /\ "examples" \in request.present
    /\ \E i \in 1..Len(request.examples) : Offending(request.examples[i])

C8_PlainTextInputAccepted ==
    (/\ ViaOptimizePrompt
     /\ IsRequest
     /\ AllKeys \subseteq request.present
     /\ HasText(request.role)
     /\ HasText(request.basic_requirements)
     /\ Lower(request.model_type) \in {OPENAI, GEMINI}
     /\ request.examples = <<EX_TEXT>>) => pc # "rejected"

\* a stage is running or has run
StageRuns == pc \in StageNames \/ trace # <<>>

\* the fields checked before the examples are in order on the entry taken
\* (the executor and the web front end also refuse an unknown model type
\* before optimize_prompt compares field names)
ReachesFieldNameChecks ==
    /\ IsRequest
    /\ HasText(request.role)
    /\ entry \in {"executor", "web"} =>
          /\ {"role", "basic_requirements", "examples"} \subseteq request.present
          /\ HasText(request.basic_requirements)
          /\ Lower(Get(request, "model_type", GEMINI)) \in {OPENAI, GEMINI}

IsCreate(i) == returned[i].op = "create_model" /\ returned[i].ok

NoClearBetween(i, j) == \A k \in i..j : returned[k].op # "clear_cache"

\* the lower-cased model type call i asked for
TypeOf(i) ==
    Lower(IF returned[i].arg = <<>> THEN DEFAULT_MODEL_TYPE ELSE returned[i].arg)

\* the successful create_model calls since the last clear_cache
CreatesSinceClear ==
    {i \in 1..Len(returned) : IsCreate(i) /\ NoClearBetween(i, Len(returned))}

\* C10: two successful create_model calls with no clear_cache between them
\* return the identical instance exactly when their model types are equal up
\* to case, and the cache holds exactly one instance per lower-cased model
\* type created since the last clear_cache, the one those calls returned.
C10_OneInstancePerModelType ==
    /\ \A i, j \in 1..Len(returned) :
          (i < j /\ IsCreate(i) /\ IsCreate(j) /\ NoClearBetween(i, j)) =>
              (returned[i].model = returned[j].model <=> TypeOf(i) = TypeOf(j))
    /\ DOMAIN model_instances = {TypeOf(i) : i \in CreatesSinceClear}
    /\ \A i \in CreatesSinceClear : model_instances[TypeOf(i)] = returned[i].model

C10_Witness ==
    \E i, j \in 1..Len(returned) :
        /\ i < j
        /\ IsCreate(i) /\ IsCreate(j) /\ NoClearBetween(i, j)
        /\ returned[i].arg = OPENAI
        /\ returned[j].arg = <<"O","p","e","n","A","I">>
        /\ returned[i].model = returned[j].model
        /\ Len(returned) = MaxCalls
        /\ returned[Len(returned)].op = "clear_cache"
        /\ model_instances = <<>>

\* C11 as stated: after any create_model call made while neither HTTPS_PROXY
\* nor HTTP_PROXY is set and the default proxy is enabled, both variables
\* equal the default proxy, whatever calls preceded it.
C11_DefaultProxyAfterEveryCreate ==
    (/\ returned # <<>>
     /\ returned[Len(returned)].op = "create_model"
     /\ returned[Len(returned)].unset
     /\ enable_default_proxy) =>
        /\ environ["HTTPS_PROXY"] = DEFAULT_PROXY
        /\ environ["HTTP_PROXY"] = DEFAULT_PROXY

\* ------------------------------------------ claims about the response parsers
\* the lines of the response a parser was called on
ResponseLines == IF response = <<>> THEN <<>> ELSE SplitLines(response)

\* a header line of an alternative: it has the word ALTERNATIVE and a colon
IsHeaderLine(line) ==
    Contains(line, ALTERNATIVE_MARK) /\ \E i \in 1..Len(line) : line[i] = ":"

\* a line holding nothing but "[Focus: ...]"
IsStandaloneFocus(line) ==
    LET t == Strip(line) IN
    /\ Len(t) >= Len(FOCUS_OPEN) + 1
    /\ SubSeq(t, 1, Len(FOCUS_OPEN)) = FOCUS_OPEN
    /\ t[Len(t)] = "]"

HeaderIndices == {i \in 1..Len(ResponseLines) : IsHeaderLine(ResponseLines[i])}

\* the last line of the section that header line h opens
SectionEnd(h) ==
    IF \E g \in HeaderIndices : g > h
    THEN (CHOOSE g \in HeaderIndices :
             g > h /\ \A f \in HeaderIndices : f > h => g <= f) - 1
    ELSE Len(ResponseLines)

\* the content lines of the section header line h opens: its lines that are
\* not blank and no standalone Focus line
IsContentLine(line) == HasText(line) /\ ~IsStandaloneFocus(line)

SectionContent(h) ==
    SelectSeq(SubSeq(ResponseLines, h + 1, SectionEnd(h)), IsContentLine)

\* the header lines followed by at least one content line, and the position
\* of such a header among them
FilledSections == {h \in HeaderIndices : SectionContent(h) # <<>>}

SectionRank(h) == Cardinality({g \in FilledSections : g <= h})

\* C12: _extract_alternatives returns one alternative per header line that is
\* followed by at least one content line, in order of appearance, so k such
\* sections give exactly k alternatives; each alternative is its section's
\* content lines, joined and stripped, without the header line, without
\* blank lines and without standalone Focus lines; every alternative has
\* text.
C12_OneAlternativePerSection ==
    parse_result.op = "_extract_alternatives" =>
        /\ Len(parse_result.value) = Cardinality(FilledSections)
        /\ \A h \in FilledSections :
              parse_result.value[SectionRank(h)]
                 = Strip(Join(SectionContent(h), <<"\n">>))
        /\ \A i \in 1..Len(parse_result.value) :
              HasText(parse_result.value[i])

C12_Witness ==
    /\ parse_result.op = "_extract_alternatives"
    /\ Len(ResponseLines) = MaxLines
    /\ HeaderIndices = {1, 3}
    /\ IsStandaloneFocus(ResponseLines[2])
    /\ parse_result.value = <<<<"c">>>>

\* a line that opens the prompt section, and a line that opens one of the
\* two sections after it
IsPromptMarker(line) == Contains(line, PROMPT_MARK)

IsOtherMarker(line) ==
    Contains(line, ADDITIONAL_EXAMPLES_MARK) \/ Contains(line, DESIGN_PRINCIPLES_MARK)

MarkerIndices ==
    {i \in 1..Len(ResponseLines) :
        IsPromptMarker(ResponseLines[i]) \/ IsOtherMarker(ResponseLines[i])}

\* line i is no marker line and the closest marker line before it opens the
\* prompt section and no other section
InPromptSection(i) ==
    /\ i \notin MarkerIndices
    /\ \E m \in MarkerIndices :
          /\ m < i
          /\ \A n \in MarkerIndices : n < i => n <= m
          /\ IsPromptMarker(ResponseLines[m])
          /\ ~IsOtherMarker(ResponseLines[m])

LinesAt(indices) ==
    [k \in 1..Cardinality(indices) |->
        ResponseLines[CHOOSE i \in indices :
                         Cardinality({j \in indices : j <= i}) = k]]

\* C13 as stated: _extract_prompt_from_response returns the lines after a
\* PROMPT: line up to the next ADDITIONAL_EXAMPLES: or DESIGN_PRINCIPLES:
\* line, joined and stripped, the empty string when there is no PROMPT: line,
\* and never a line of a DESIGN_PRINCIPLES or ADDITIONAL_EXAMPLES section.
C13_OnlyPromptSectionLines ==
    parse_result.op = "_extract_prompt_from_response" =>
        /\ parse_result.value
              = Strip(Join(LinesAt({i \in 1..Len(ResponseLines) : InPromptSection(i)}),
                           <<"\n">>))
        /\ (\A i \in 1..Len(ResponseLines) : ~IsPromptMarker(ResponseLines[i]))
              => parse_result.value = <<>>

\* ------------------------------------------------ claims about the executor
\* execute was given a JSON object that passed the checks and left out
\* model_type
RunsWithoutModelType ==
    /\ entry = "executor"
    /\ request.kind = "json_object"
    /\ "model_type" \notin request.present
    /\ state.step # "none"

\* C14 as stated: in the executor a valid JSON request without model_type is
\* run with the openai model, and no model type other than gemini and openai
\* is used.
C14_OmittedModelTypeRunsOpenai ==
    /\ RunsWithoutModelType => state.model_type = OPENAI
    /\ entry = "executor" =>
          /\ workflows \subseteq {GEMINI, OPENAI}
          /\ state.step # "none" => state.model_type \in {GEMINI, OPENAI}

\* execute was given a JSON object whose model_type is neither gemini nor
\* openai in any spelling
UnsupportedModelTypeGiven ==
    /\ entry = "executor"
    /\ request.kind = "json_object"
    /\ "model_type" \in request.present
    /\ Lower(request.model_type) \notin {GEMINI, OPENAI}

\* C15: an executor request whose model_type is neither gemini nor openai,
\* compared without case, gets exactly one error message and nothing else:
\* no start message, no workflow created or looked up, no stage run.
C15_UnsupportedModelTypeOnlyError ==
    UnsupportedModelTypeGiven =>
        /\ events = <<"error">>
        /\ workflows = {}
        /\ trace = <<>>
        /\ pc = "rejected"
        /\ result.status = "rejected"

C15_Witness ==
    /\ UnsupportedModelTypeGiven
    /\ result.err = "unsupported_model"
    /\ events = <<"error">>

\* the messages that end an execute call, and how many the queue holds
TerminalMessages == {"result", "error", "usage_help"}

TerminalCount == Cardinality({i \in 1..Len(events) : events[i] \in TerminalMessages})

ExecuteEnded == entry = "executor" /\ pc \in {"done", "rejected", "failed"}

\* C16: execute turns every failure of parsing, validation, workflow creation
\* or the pipeline into an error message, and each call enqueues exactly one
\* terminal message (the formatted result, one error message or the usage
\* help) as its last message; a result and an error are never both enqueued.
C16_ExactlyOneTerminalMessage ==
    entry = "executor" =>
        /\ TerminalCount <= 1
        /\ ~(\E i, j \in 1..Len(events) : events[i] = "result" /\ events[j] = "error")
        /\ ExecuteEnded =>
              /\ TerminalCount = 1
              /\ events[Len(events)] \in TerminalMessages
              /\ result.status = "completed" <=> events[Len(events)] = "result"
              /\ result.err = "usage_help" <=> events[Len(events)] = "usage_help"
        /\ ~ExecuteEnded => TerminalCount = 0

C16_Witness ==
    /\ ExecuteEnded
    /\ events = <<"start", "error">>
    /\ result.status = "rejected"

\* -------------------------------------------- claims about the stage results
\* a finished run of optimize_prompt in which every stage took its fallback
EveryStageFellBack ==
    /\ ViaOptimizePrompt
    /\ pc = "done"
    /\ TraceSteps = AllFallbackSteps

\* C17: when every model call of a validated run fails, optimize_prompt
\* returns the fallback prompt as generated_prompt, the basic evaluation as
\* the only evaluation, the fallback prompt as the only alternative and as
\* final_recommendation, and step "completed".
C17_AllCallsFailResult ==
    EveryStageFellBack =>
        /\ result.status = "completed"
        /\ result.value.current_prompt = FALLBACK_PROMPT
        /\ result.value.evaluations = <<BASIC_EVALUATION>>
        /\ result.value.alternative_prompts = <<FALLBACK_PROMPT>>
        /\ result.value.final_prompt = FALLBACK_PROMPT
        /\ result.value.step = "completed"

\* the models were created, so that it was the calls that failed
C17_Witness ==
    /\ EveryStageFellBack
    /\ entry = "optimize_prompt"
    /\ generator.model # NoModel
    /\ evaluator.model # NoModel
    /\ improver.model # NoModel
    /\ result.value.evaluations = <<BASIC_EVALUATION>>
    /\ result.value.final_prompt = FALLBACK_PROMPT

\* the alternative lists the improve stage can parse from a reply
ParsedAlternatives ==
    {ExtractAlternatives(o.content) : o \in {x \in ImproveOutcomes : x.ok}} \ {<<>>}

\* the step the improve stage of a finished run wrote
ImproveStep ==
    trace[CHOOSE i \in 1..Len(trace) : trace[i].stage = "improve_prompts"].step

\* C18 as stated: when the pipeline completes, alternative_prompts holds at
\* least one alternative, the parsed ones or the current prompt alone.
C18_AtLeastOneAlternative ==
    pc = "done" =>
        /\ state.alternative_prompts # <<>>
        /\ \/ state.alternative_prompts \in ParsedAlternatives
           \/ state.alternative_prompts = <<state.current_prompt>>

\* C18: when the pipeline completes with a current prompt that is not empty,
\* alternative_prompts holds at least one alternative: the parsed ones, or
\* the current prompt alone when parsing finds none or the improve stage
\* fails; with an empty current prompt the improve stage fails and
\* alternative_prompts is the empty list.
C18_AlternativesUnlessNoPrompt ==
    pc = "done" =>
        IF state.current_prompt = <<>>
        THEN /\ state.alternative_prompts = <<>>
             /\ ImproveStep = "improvement_fallback"
        ELSE /\ state.alternative_prompts # <<>>
             /\ ImproveStep = "alternatives_generated" =>
                   state.alternative_prompts
                      \in ParsedAlternatives \cup {<<state.current_prompt>>}
             /\ ImproveStep = "improvement_fallback" =>
                   state.alternative_prompts = <<state.current_prompt>>

C18_Witness ==
    /\ pc = "done"
    /\ state.current_prompt = <<>>
    /\ state.alternative_prompts = <<>>
    /\ state.final_prompt = FALLBACK_PROMPT

\* the generate-prompt stage has run and succeeded for a request with examples
PromptGeneratedFromExamples ==
    /\ state.examples # <<>>
    /\ \E i \in 1..Len(trace) :
          /\ trace[i].stage = "generate_prompt"
          /\ trace[i].step = "prompt_generated"

\* the keys of the examples' input JSON objects
ExampleVariables ==
    UNION {JsonLoads(state.examples[i].input.s).keys : i \in 1..Len(state.examples)}

\* "{v}, {w}, ..." for the variables of the examples in sorted order
VariableList ==
    Join([i \in 1..Len(SortedKeys(ExampleVariables)) |->
             <<"{", SortedKeys(ExampleVariables)[i], "}">>], <<",", " ">>)

\* the prompts generate-prompt can extract from a reply
ExtractedPrompts ==
    {ExtractPromptFromResponse(o.content) : o \in {x \in PromptOutcomes : x.ok}}

HasAllVariables(prompt) ==
    \A v \in ExampleVariables : Contains(prompt, <<"{", v, "}">>)

\* C19: when generate-prompt succeeds for a request with examples,
\* current_prompt holds the placeholder {v} of every key v of the examples'
\* input objects: it is the extracted prompt when that has them all, and
\* otherwise the extracted prompt followed by an "Available variables:" line
\* that lists all of them.
C19_EveryVariableInPrompt ==
    PromptGeneratedFromExamples =>
        /\ HasAllVariables(state.current_prompt)
        /\ \E extracted \in ExtractedPrompts :
              state.current_prompt =
                 IF HasAllVariables(extracted) THEN extracted
                 ELSE extracted \o AVAILABLE_VARIABLES \o VariableList

C19_Witness ==
    /\ PromptGeneratedFromExamples
    /\ ExampleVariables = {"a", "b"}
    /\ state.current_prompt
          = <<"U","s","e"," ","{","a","}">> \o AVAILABLE_VARIABLES
               \o <<"{","a","}",","," ","{","b","}">>

\* the evaluate stage of the run has finished
Evaluated == \E i \in 1..Len(trace) : trace[i].stage = "evaluate_prompt"

\* what the one entry of evaluations can be
EvaluationTexts ==
    {BASIC_EVALUATION} \cup {o.content : o \in {x \in EvaluationOutcomes : x.ok}}

\* C20: in one pipeline run evaluations is empty until the evaluate stage, has
\* exactly one entry after it (the model's evaluation or the basic
\* evaluation), no later stage changes it, and the improve stage is never
\* entered with an empty list.
C20_EvaluationsOnlyGrows ==
    /\ [](/\ ~Evaluated => state.evaluations = <<>>
          /\ Evaluated =>
                /\ Len(state.evaluations) = 1
                /\ state.evaluations[1] \in EvaluationTexts
          /\ pc = "improve_prompts" => state.evaluations # <<>>)
    /\ [][/\ Len(state.evaluations) <= Len(state'.evaluations)
          /\ SubSeq(state'.evaluations, 1, Len(state.evaluations)) = state.evaluations
          /\ state'.evaluations # state.evaluations => pc = "evaluate_prompt"]_vars

C20_Witness ==
    /\ pc = "done"
    /\ state.evaluations = <<RESP_EVALUATION>>
    /\ ImproveStep = "alternatives_generated"

\* ------------------------------------- claims about runs that share objects
AgentsOf(k) == {objects[k].generator, objects[k].evaluator, objects[k].improver}

\* C21 as stated: over any sequence of optimize_prompt runs on one workflow
\* object, every model a stage calls is an instance of the run's model_type,
\* and each agent's stored model is absent or of the type in its model_type
\* field.
C21_ModelOfRunType ==
    /\ \A t \in DOMAIN tasks :
          \A kind \in tasks[t].called : kind = Lower(tasks[t].state.model_type)
    /\ \A k \in DOMAIN objects : \A a \in AgentsOf(k) :
          a.model = NoModel \/ a.model.kind = Lower(a.model_type)

\* C22 as stated: when web optimisations run interleaved on the shared
\* StreamingOptimizer, every stage of a run is executed on the workflow that
\* run built and every model its stages call is of the run's model_type.
C22_StagesOnOwnWorkflow ==
    \A t \in DOMAIN tasks :
        tasks[t].via = "web" =>
            /\ tasks[t].ran_on \subseteq {tasks[t].wf}
            /\ \A kind \in tasks[t].called : kind = Lower(tasks[t].state.model_type)

\* what optimize_prompt and optimize_with_streaming return of a run's state:
\* generated_prompt, evaluations, alternative_prompts, final_recommendation
\* and step
Outputs(st) ==
    <<st.current_prompt, st.evaluations, st.alternative_prompts, st.final_prompt,
      st.step>>

\* C23: for the same accepted request and the same sequence of model replies
\* and failures, the web stepper and the compiled pipeline are at the same
\* stage after every step and give the same generated_prompt, evaluations,
\* alternative_prompts, final_recommendation and step.
C23_WebRefinesPipeline ==
    Len(tasks) = 2 =>
        /\ tasks[1].pc = tasks[2].pc
        /\ Outputs(tasks[1].state) = Outputs(tasks[2].state)

C23_Witness ==
    /\ Len(tasks) = 2
    /\ tasks[1].pc = "done"
    /\ tasks[2].pc = "done"
    /\ tasks[1].state.model_type = MT_GEMINI_MIXED
    /\ tasks[2].state.model_type = GEMINI
    /\ tasks[1].state.basic_requirements # tasks[2].state.basic_requirements
    /\ Len(tasks[2].state.alternative_prompts) = 3
    /\ tasks[2].state.step = "completed"

(***************************************************************************)
(* C24: the simple text format of _parse_examples                           *)
(***************************************************************************)

IsInputEntry(line) == StartsWith(Lower(line), INPUT_LABEL)
IsOutputEntry(line) == StartsWith(Lower(line), OUTPUT_LABEL)

\* the content on the same line as the label
SameLineContent(line) ==
    IF IsInputEntry(line) THEN Strip(SubSeq(line, 7, Len(line)))
    ELSE Strip(SubSeq(line, 8, Len(line)))

EntryLines == StrippedLines(response)
InputEntries == {i \in 1..Len(EntryLines) : IsInputEntry(EntryLines[i])}
OutputEntries == {i \in 1..Len(EntryLines) : IsOutputEntry(EntryLines[i])}

\* the line after the last line of the pair that the "Input:" line i opens
PairEnd(i) ==
    IF \E j \in InputEntries : j > i
    THEN CHOOSE j \in InputEntries : j > i /\ \A m \in InputEntries : m > i => m >= j
    ELSE Len(EntryLines) + 1

\* the "Output:" line of the pair that the "Input:" line i opens
OutputOf(i) == CHOOSE j \in OutputEntries : i < j /\ j < PairEnd(i)

\* the text is k pairs: each "Input:" entry has content, on its line or on
\* the lines after it, and is followed by one "Output:" entry with content
IsPairs ==
    /\ EntryLines # <<>>
    /\ 1 \in InputEntries
    /\ \A i \in InputEntries :
           /\ Cardinality({j \in OutputEntries : i < j /\ j < PairEnd(i)}) = 1
           /\ SameLineContent(EntryLines[i]) # <<>> \/ OutputOf(i) > i + 1
           /\ SameLineContent(EntryLines[OutputOf(i)]) # <<>> \/ PairEnd(i) > OutputOf(i) + 1

\* the "Input:" line of the j-th pair
NthInput(j) == CHOOSE i \in InputEntries : Cardinality({m \in InputEntries : m <= i}) = j

\* the output text of the pair that the "Input:" line i opens
OutputText(i) ==
    Strip(Join(<<SameLineContent(EntryLines[OutputOf(i)])>>
                   \o SubSeq(EntryLines, OutputOf(i) + 1, PairEnd(i) - 1),
               <<"\n">>))

IsJsonObject(s) == Len(s) >= 2 /\ s[1] = "{" /\ s[Len(s)] = "}"

\* C24 as stated: a text of k "Input:" entries, each followed by an
\* "Output:" entry, with the content on the label's line or on the lines
\* after it, is parsed into k examples in order, each with a JSON-object
\* string as input and the pair's output text as output; an empty text is
\* parsed into the empty list.
C24_OneExamplePerPair ==
    parse_result.op = "_parse_examples" =>
        /\ IsBlank(response) => parse_result.value = <<>>
        /\ IsPairs =>
               /\ Len(parse_result.value) = Cardinality(InputEntries)
               /\ \A j \in 1..Len(parse_result.value) :
                      /\ IsJsonObject(parse_result.value[j].input)
                      /\ parse_result.value[j].output = OutputText(NthInput(j))

(***************************************************************************)
(* C25: validate_prompt                                                     *)
(***************************************************************************)

Validated == parse_result.value

Passed == Validated.kind \in {"passed", "passed, no variables"}

\* the definition lines of the call, stripped, blank lines left out
DefinitionsGiven ==
    LET lines == SplitLines(parse_result.variables)
        kept == SelectSeq(lines, LAMBDA l : ~IsBlank(l))
    IN  [i \in 1..Len(kept) |-> Strip(kept[i])]

\* a line without '=' or with an empty key or value
IsMalformed(line) ==
    \/ ~HasEquals(line)
    \/ SplitEquals(line).key = <<>>
    \/ SplitEquals(line).value = <<>>

AnyMalformed == \E i \in 1..Len(DefinitionsGiven) : IsMalformed(DefinitionsGiven[i])

FirstMalformed ==
    DefinitionsGiven[CHOOSE i \in 1..Len(DefinitionsGiven) :
                         /\ IsMalformed(DefinitionsGiven[i])
                         /\ \A j \in 1..(i - 1) : ~IsMalformed(DefinitionsGiven[j])]

DefinedKeys == {SplitEquals(DefinitionsGiven[i]).key : i \in 1..Len(DefinitionsGiven)}

\* the definitions in the order given, a later value for a key replacing
\* the earlier one
RECURSIVE DefinitionsDict(_, _)
DefinitionsDict(lines, d) ==
    IF lines = <<>> THEN d
    ELSE DefinitionsDict(Tail(lines),
                         DictSet(d, SplitEquals(Head(lines)).key,
                                 SplitEquals(Head(lines)).value))

\* the prompt after every defined {key} is replaced by its value, one
\* definition after the other
Substituted == ReplaceVariables(response, DefinitionsDict(DefinitionsGiven, <<>>))

HasBrace(s) == \E i \in 1..Len(s) : s[i] \in {"{", "}"}

\* no value holds a brace and no variable name of the prompt holds one
PlainVariables ==
    /\ \A i \in 1..Len(DefinitionsGiven) : ~HasBrace(SplitEquals(DefinitionsGiven[i]).value)
    /\ \A x \in ExtractVariables(response) : ~HasBrace(x)

====
